---- MODULE Spec2Model ----
(***************************************************************************)
(* Declarative SQLite schema migrator of syllabus-tracker.                  *)
(*                                                                         *)
(* src/src/database/migrations.rs (the migrator the application and its    *)
(* tests use) and src/src/lib/migrations/main.rs (the copy behind the      *)
(* get_destructive_migrations binary) are modelled as one state machine:   *)
(* a migrate call is a sequence of database operations, each one step,     *)
(* against a live database with a committed state and the working state of *)
(* the open transaction, and a pristine in-memory database built from the  *)
(* target DDL.  SQL texts are sequences of one-character strings, so that  *)
(* normalize_sql and the CREATE TABLE rewrite work on the text as the code *)
(* does.                                                                   *)
(***************************************************************************)
EXTENDS Integers, Sequences, FiniteSets, TLC

VARIABLES
  db,            \* committed state of the live database (what other connections see)
  tx,            \* working state of the migration transaction
  txOpen,        \* a transaction is open on the live connection
  pristine,      \* the pristine in-memory database of this attempt, or None
  migrator,      \* the DeclarativeMigrator value: target_schema, allow_deletions, schema_changes_made
  variant,       \* which copy of the migrator runs: "database" or "lib"
  pc,            \* position of the running call
  changes,       \* ChangesNeeded of the running call
  loc,           \* locals of apply_changes / migrate_table / migrate_indices
  result,        \* what the last call returned
  pre,           \* live database when the running call started
  log,           \* statements executed on the live connection by the running call
  hist,          \* bookkeeping of the running call: calls made, injected faults,
                 \* the statement that failed, VACUUMs run, commit done
  env,           \* the environment variable ALLOW_DESTRUCTIVE_MIGRATIONS: its text, or None
  entry,         \* the function the caller entered the migrator by
  stdout,        \* what get_destructive_migrations printed
  cascade,       \* the foreign keys declared ON DELETE CASCADE: pairs <<child, parent>>
  cmp,           \* two table texts given to the comparison of analyze_changes
  user_sessions, \* the rows of table user_sessions, by token
  now,           \* the clock
  ret,           \* what the last session operation returned
  was,           \* bookkeeping of the session operations: the rows the last one
                 \* deleted, the operation before it, the tokens created and invalidated
  req            \* the request the guard of User is deciding: its position, its
                 \* session_token cookie, what the guard read and the Outcome

vars == <<db, tx, txOpen, pristine, migrator, variant, pc, changes, loc, result, pre, log, hist,
          env, entry, stdout, cascade, cmp, user_sessions, now, ret, was, req>>

\* What no step of a call changes: the copy that runs, the environment, the
\* entry point, the output of the binary, the foreign keys, the texts of a
\* comparison made apart from a call, and the sessions of the application.
sessions == <<user_sessions, now, ret, was, req>>
caller == <<variant, env, entry, stdout, cascade, cmp, sessions>>

None == "none"
NULL == "NULL"

(***************************************************************************)
(* Bounds of the model.                                                    *)
(***************************************************************************)
MaxRows == 1        \* rows per table in the initial live database
MaxVersion == 1     \* user_version values are 0..MaxVersion
MaxCalls == 2       \* migrate calls in one behaviour
MaxTokens == 2      \* tokens of a text given to normalize_sql
MaxTime == 2        \* the clock runs over the seconds 0..MaxTime
MaxSessionId == 2   \* rowids of user_sessions are 1..MaxSessionId

TableNames == {"t1", "t2"}
Columns == {"a", "b", "c"}
IndexNames == {"i1"}

(***************************************************************************)
(* SQL text: sequences of characters.                                      *)
(***************************************************************************)
Whitespace == {" ", "\t", "\n"}
Punct == {"(", ")", ","}
WordChars == {"A", "B", "C", "D", "E", "I", "L", "N", "O", "R", "T", "X",
              "a", "b", "c", "e", "g", "i", "m", "n", "o", "r", "t", "w",
              "1", "2", "_"}

RECURSIVE SkipWhile(_, _)
SkipWhile(s, set) ==
  IF s # <<>> /\ Head(s) \in set THEN SkipWhile(Tail(s), set) ELSE s

RECURSIVE HasNewline(_)
HasNewline(s) == IF s = <<>> THEN FALSE ELSE Head(s) = "\n" \/ HasNewline(Tail(s))

RECURSIVE AfterNewline(_)
AfterNewline(s) == IF Head(s) = "\n" THEN Tail(s) ELSE AfterNewline(Tail(s))

\* Regex "--[^\n]*\n" replaced by "": a comment is removed with its newline;
\* a comment that no newline ends does not match.
RECURSIVE StripComments(_)
StripComments(s) ==
  IF Len(s) < 2 THEN s
  ELSE IF s[1] = "-" /\ s[2] = "-" /\ HasNewline(Tail(Tail(s)))
       THEN StripComments(AfterNewline(Tail(Tail(s))))
       ELSE <<Head(s)>> \o StripComments(Tail(s))

\* Regex "\s+" replaced by " ".
RECURSIVE CollapseWhitespace(_)
CollapseWhitespace(s) ==
  IF s = <<>> THEN s
  ELSE IF Head(s) \in Whitespace
       THEN <<" ">> \o CollapseWhitespace(SkipWhile(s, Whitespace))
       ELSE <<Head(s)>> \o CollapseWhitespace(Tail(s))

\* Regex " *([(),]) *" replaced by "$1".
RECURSIVE TightenPunct(_)
TightenPunct(s) ==
  IF s = <<>> THEN s
  ELSE LET r == SkipWhile(s, {" "})
       IN IF r # <<>> /\ Head(r) \in Punct
          THEN <<Head(r)>> \o TightenPunct(SkipWhile(Tail(r), {" "}))
          ELSE <<Head(s)>> \o TightenPunct(Tail(s))

\* Regex "\"(\w+)\"" replaced by "$1".
RECURSIVE Unquote(_)
Unquote(s) ==
  IF s = <<>> THEN s
  ELSE IF Head(s) = "\""
       THEN LET r == SkipWhile(Tail(s), WordChars)
                n == Len(Tail(s)) - Len(r)
            IN IF n > 0 /\ r # <<>> /\ Head(r) = "\""
               THEN SubSeq(Tail(s), 1, n) \o Unquote(Tail(r))
               ELSE <<Head(s)>> \o Unquote(Tail(s))
       ELSE <<Head(s)>> \o Unquote(Tail(s))

RECURSIVE Reverse(_)
Reverse(s) == IF s = <<>> THEN s ELSE Append(Reverse(Tail(s)), Head(s))

Trim(s) == Reverse(SkipWhile(Reverse(SkipWhile(s, Whitespace)), Whitespace))

normalize_sql(sql) ==
  Trim(Unquote(TightenPunct(CollapseWhitespace(StripComments(sql)))))

IsPrefix(p, s) == Len(p) <= Len(s) /\ SubSeq(s, 1, Len(p)) = p

\* str::replace: every non-overlapping occurrence of from, left to right.
RECURSIVE Replace(_, _, _)
Replace(s, from, to) ==
  IF s = <<>> THEN s
  ELSE IF IsPrefix(from, s)
       THEN to \o Replace(SubSeq(s, Len(from) + 1, Len(s)), from, to)
       ELSE <<Head(s)>> \o Replace(Tail(s), from, to)

(***************************************************************************)
(* Catalog entries and their stored SQL.                                   *)
(*   table : [cols, quoted, lay, rows]   index : [tbl, col, lay]           *)
(* cols is the set of column names; quoted says whether the stored CREATE  *)
(* TABLE text names the table in double quotes (as SQLite rewrites it on   *)
(* ALTER TABLE .. RENAME TO); lay is the layout of the stored text.        *)
(***************************************************************************)
Layouts == {"spaced", "compact"}
ColSets == {{"a", "b"}, {"a", "b", "c"}, {"c"}}
TableDescs == [cols : ColSets, quoted : BOOLEAN, lay : Layouts]
IndexDescs == [tbl : TableNames, col : Columns, lay : Layouts]

\* format!("{}_migration_new", table_name)
TempName(table_name) == table_name \o "_migration_new"

AllTableNames == TableNames \cup {TempName(t) : t \in TableNames}

Suffix == <<"_", "m", "i", "g", "r", "a", "t", "i", "o", "n", "_", "n", "e", "w">>

NameChars(n) ==
  CASE n = "t1" -> <<"t", "1">>
    [] n = "t2" -> <<"t", "2">>
    [] n = "i1" -> <<"i", "1">>
    [] n = "a" -> <<"a">>
    [] n = "b" -> <<"b">>
    [] n = "c" -> <<"c">>
    [] n = TempName("t1") -> <<"t", "1">> \o Suffix
    [] n = TempName("t2") -> <<"t", "2">> \o Suffix

KwCreateTable == <<"C", "R", "E", "A", "T", "E", " ", "T", "A", "B", "L", "E", " ">>
KwCreateIndex == <<"C", "R", "E", "A", "T", "E", " ", "I", "N", "D", "E", "X", " ">>
KwOn == <<" ", "O", "N", " ">>

\* Columns in declaration order.
OrderedCols(cols) == SelectSeq(<<"a", "b", "c">>, LAMBDA c : c \in cols)

RECURSIVE Join(_, _)
Join(names, sep) ==
  IF names = <<>> THEN <<>>
  ELSE IF Len(names) = 1 THEN NameChars(names[1])
  ELSE NameChars(names[1]) \o sep \o Join(Tail(names), sep)

Gap(lay) == IF lay = "spaced" THEN <<" ">> ELSE <<>>

TableText(n, d) ==
  KwCreateTable
    \o (IF d.quoted THEN <<"\"">> \o NameChars(n) \o <<"\"">> ELSE NameChars(n))
    \o Gap(d.lay) \o <<"(">> \o Join(OrderedCols(d.cols), <<",">> \o Gap(d.lay)) \o <<")">>

IndexText(n, d) ==
  KwCreateIndex \o NameChars(n) \o KwOn \o NameChars(d.tbl)
    \o Gap(d.lay) \o <<"(">> \o NameChars(d.col) \o <<")">>

\* The stored texts and their normal forms, tabulated once.
Tabulated(f) == f @@ <<>>

TableTexts ==
  Tabulated([n \in AllTableNames, d \in TableDescs |-> TableText(n, d)])
IndexTexts ==
  Tabulated([n \in IndexNames, d \in IndexDescs |-> IndexText(n, d)])
NormTableTexts ==
  Tabulated([n \in AllTableNames, d \in TableDescs |-> normalize_sql(TableTexts[n, d])])
NormIndexTexts ==
  Tabulated([n \in IndexNames, d \in IndexDescs |-> normalize_sql(IndexTexts[n, d])])

Desc(t) == [cols |-> t.cols, quoted |-> t.quoted, lay |-> t.lay]
IDesc(i) == [tbl |-> i.tbl, col |-> i.col, lay |-> i.lay]

(***************************************************************************)
(* SQLite, as far as the migrator uses it.  A database is                  *)
(*   [tables : name -> table, indices : name -> index, user_version]       *)
(* and every statement either yields the next database or fails and        *)
(* leaves the database as it was.                                          *)
(***************************************************************************)
Put(f, k, v) == [x \in DOMAIN f \cup {k} |-> IF x = k THEN v ELSE f[x]]
Del(f, ks) == [x \in DOMAIN f \ ks |-> f[x]]
EmptyMap == [x \in {} |-> None]
EmptyDb == [tables |-> EmptyMap, indices |-> EmptyMap, user_version |-> 0]

Ok(d) == [ok |-> TRUE, db |-> d]
Fail(d) == [ok |-> FALSE, db |-> d]

\* What a CREATE text defines, or None when SQLite cannot parse it.
TableOfText ==
  Tabulated([text \in {TableTexts[n, d] : n \in AllTableNames, d \in TableDescs} |->
     LET p == CHOOSE p \in AllTableNames \X TableDescs : TableTexts[p[1], p[2]] = text
     IN [kind |-> "table", name |-> p[1], desc |-> p[2]]])

IndexOfText ==
  Tabulated([text \in {IndexTexts[n, d] : n \in IndexNames, d \in IndexDescs} |->
     LET p == CHOOSE p \in IndexNames \X IndexDescs : IndexTexts[p[1], p[2]] = text
     IN [kind |-> "index", name |-> p[1], desc |-> p[2]]])

ParseCreate(text) ==
  IF text \in DOMAIN TableOfText THEN TableOfText[text]
  ELSE IF text \in DOMAIN IndexOfText THEN IndexOfText[text]
  ELSE [kind |-> None]

ExecCreate(d, text) ==
  LET p == ParseCreate(text) IN
  IF p.kind = "table" /\ p.name \notin DOMAIN d.tables
  THEN Ok([d EXCEPT !.tables = Put(@, p.name,
             [cols |-> p.desc.cols, quoted |-> p.desc.quoted, lay |-> p.desc.lay,
              rows |-> <<>>])])
  ELSE IF p.kind = "index" /\ p.name \notin DOMAIN d.indices
          /\ p.desc.tbl \in DOMAIN d.tables
          /\ p.desc.col \in d.tables[p.desc.tbl].cols
  THEN Ok([d EXCEPT !.indices = Put(@, p.name, p.desc)])
  ELSE Fail(d)

\* INSERT INTO into (insert_cols) SELECT select_cols FROM from: the k-th selected
\* column lands in the k-th listed column; unlisted columns get NULL.
CopiedRow(r, cols, insert_cols, select_cols) ==
  [c \in cols |->
     IF \E k \in 1..Len(insert_cols) : insert_cols[k] = c
     THEN r[select_cols[CHOOSE k \in 1..Len(insert_cols) : insert_cols[k] = c]]
     ELSE NULL]

ExecCopy(d, into, insert_cols, select_cols, from) ==
  IF /\ into \in DOMAIN d.tables /\ from \in DOMAIN d.tables
     /\ \A k \in 1..Len(insert_cols) : insert_cols[k] \in d.tables[into].cols
     /\ \A k \in 1..Len(select_cols) : select_cols[k] \in d.tables[from].cols
  THEN Ok([d EXCEPT !.tables[into].rows =
             @ \o [k \in 1..Len(d.tables[from].rows) |->
                     CopiedRow(d.tables[from].rows[k], d.tables[into].cols,
                               insert_cols, select_cols)]])
  ELSE Fail(d)

\* The tables of d whose rows reference table name ON DELETE CASCADE.
Children(d, name) == {c \in DOMAIN d.tables \ {name} : <<c, name>> \in cascade}

\* DROP TABLE also drops every index on the table.  With foreign keys enabled
\* (the default of sqlx) it first deletes the rows of the table, and with them
\* the rows that reference them ON DELETE CASCADE: the k-th row of a child
\* references the k-th row of its parent.
ExecDropTable(d, name) ==
  IF name \in DOMAIN d.tables
  THEN Ok([d EXCEPT
        !.tables = [c \in DOMAIN @ \ {name} |->
                      IF c \in Children(d, name)
                      THEN [@[c] EXCEPT !.rows =
                              SubSeq(@, Len(d.tables[name].rows) + 1, Len(@))]
                      ELSE @[c]],
        !.indices = Del(@, {i \in DOMAIN @ : @[i].tbl = name})])
  ELSE Fail(d)

\* ALTER TABLE from RENAME TO to: the stored text is rewritten with the new
\* name in double quotes.
ExecRename(d, from, to) ==
  IF from \in DOMAIN d.tables /\ to \notin DOMAIN d.tables
  THEN Ok([d EXCEPT
        !.tables = Put(Del(@, {from}), to, [@[from] EXCEPT !.quoted = TRUE]),
        !.indices = [i \in DOMAIN @ |->
                       IF @[i].tbl = from THEN [@[i] EXCEPT !.tbl = to] ELSE @[i]]])
  ELSE Fail(d)

ExecDropIndex(d, name) ==
  IF name \in DOMAIN d.indices
  THEN Ok([d EXCEPT !.indices = Del(@, {name})])
  ELSE Fail(d)

ExecUserVersion(d, v) == Ok([d EXCEPT !.user_version = v])

Execute(d, stmt) ==
  CASE stmt.op = "create" -> ExecCreate(d, stmt.sql)
    [] stmt.op = "copy" -> ExecCopy(d, stmt.into, stmt.insert_cols, stmt.select_cols, stmt.from)
    [] stmt.op = "drop_table" -> ExecDropTable(d, stmt.name)
    [] stmt.op = "rename" -> ExecRename(d, stmt.from, stmt.to)
    [] stmt.op = "drop_index" -> ExecDropIndex(d, stmt.name)
    [] stmt.op = "user_version" -> ExecUserVersion(d, stmt.value)

(***************************************************************************)
(* Errors and results.                                                     *)
(***************************************************************************)
Variants == {"database", "lib"}

\* AppError::Database(sqlx::Error) by "?"; the lib copy has one error type.
DbError(v, op) ==
  [kind |-> IF v = "lib" THEN "MigrationError" ELSE "Database",
   text |-> "sqlx", names |-> {}, table |-> None, remedy |-> FALSE, op |-> op]

\* AppError::Internal(format!(".. {:?} .. Set allow_deletions=true to permit this."))
Refusal(v, text, names, table) ==
  [kind |-> IF v = "lib" THEN "MigrationError" ELSE "Internal",
   text |-> text, names |-> names, table |-> table, remedy |-> TRUE, op |-> "policy"]

PristineError(v) ==
  [kind |-> IF v = "lib" THEN "MigrationError" ELSE "Internal",
   text |-> "Failed to create pristine schema", names |-> {}, table |-> None,
   remedy |-> FALSE, op |-> "pristine"]

ResultOk(changed) == [ok |-> TRUE, changed |-> changed]
ResultErr(e) == [ok |-> FALSE, error |-> e]

(***************************************************************************)
(* Introspection and the diff.                                             *)
(***************************************************************************)
\* PRAGMA table_info(table_name): the column names (of no columns when the
\* table does not exist).
get_table_columns(d, table_name) ==
  IF table_name \in DOMAIN d.tables THEN d.tables[table_name].cols ELSE {}

\* normalize_sql(&tables[name].sql)
NormalizedTableSql(d, n) == NormTableTexts[n, Desc(d.tables[n])]
NormalizedIndexSql(d, n) == NormIndexTexts[n, IDesc(d.indices[n])]

NoChanges ==
  [new_tables |-> {}, removed_tables |-> {}, modified_tables |-> {},
   modified_info |-> EmptyMap,
   new_indices |-> {}, removed_indices |-> {}, modified_indices |-> {},
   pragma_changes |-> FALSE]

\* A comparison of the stored texts as they are, not normalized.
RawModifiedTables(cur, tgt) ==
  {n \in DOMAIN cur.tables \cap DOMAIN tgt.tables :
     TableTexts[n, Desc(cur.tables[n])] # TableTexts[n, Desc(tgt.tables[n])]}

ModifiedTables(cur, tgt) ==
  {n \in DOMAIN cur.tables \cap DOMAIN tgt.tables :
     NormalizedTableSql(cur, n) # NormalizedTableSql(tgt, n)}

ModifiedIndices(cur, tgt) ==
  {n \in DOMAIN cur.indices \cap DOMAIN tgt.indices :
     NormalizedIndexSql(cur, n) # NormalizedIndexSql(tgt, n)}

PragmaChanges(cur, tgt) == cur.user_version # tgt.user_version

\* A diff that lists every current table as removed, the modified ones too.
OverlappingDiff(v, cur, tgt) ==
  [new_tables |-> DOMAIN tgt.tables \ DOMAIN cur.tables,
   removed_tables |-> DOMAIN cur.tables,
   modified_tables |-> {n \in DOMAIN cur.tables \cap DOMAIN tgt.tables :
                          NormTableTexts[n, Desc(cur.tables[n])] #
                            NormTableTexts[n, Desc(tgt.tables[n])]},
   modified_info |-> EmptyMap,
   new_indices |-> DOMAIN tgt.indices \ DOMAIN cur.indices,
   removed_indices |-> DOMAIN cur.indices \ DOMAIN tgt.indices,
   modified_indices |-> {},
   pragma_changes |-> cur.user_version # tgt.user_version]

\* The ChangesNeeded that analyze_changes builds from the two catalogs; the lib
\* copy also records the removed and new columns of each modified table.
Diff(v, cur, tgt) ==
  [new_tables |-> DOMAIN tgt.tables \ DOMAIN cur.tables,
   removed_tables |-> DOMAIN cur.tables \ DOMAIN tgt.tables,
   modified_tables |-> ModifiedTables(cur, tgt),
   modified_info |->
     IF v = "lib"
     THEN [n \in ModifiedTables(cur, tgt) |->
             [removed_columns |-> get_table_columns(cur, n) \ get_table_columns(tgt, n),
              new_columns |-> get_table_columns(tgt, n) \ get_table_columns(cur, n)]]
     ELSE EmptyMap,
   new_indices |-> DOMAIN tgt.indices \ DOMAIN cur.indices,
   removed_indices |-> DOMAIN cur.indices \ DOMAIN tgt.indices,
   modified_indices |-> ModifiedIndices(cur, tgt),
   pragma_changes |-> PragmaChanges(cur, tgt)]

has_any_changes(c) ==
  \/ c.new_tables # {}
  \/ c.removed_tables # {}
  \/ c.modified_tables # {}
  \/ c.new_indices # {}
  \/ c.removed_indices # {}
  \/ c.modified_indices # {}
  \/ c.pragma_changes

RemovedColumns(cur, tgt, table_name) ==
  get_table_columns(cur, table_name) \ get_table_columns(tgt, table_name)

\* "Check for forbidden deletions" at the end of analyze_changes (database copy
\* only): the errors the check can return, none when it passes.  The modified
\* tables are visited in the order of a hash set, so the first table found with
\* removed columns may be any of them.
GateErrors(v, allow_deletions, c, cur, tgt) ==
  IF v = "database" /\ (c.removed_tables # {} \/ c.modified_tables # {}) /\ ~allow_deletions
  THEN LET withRemoved == {n \in c.modified_tables : RemovedColumns(cur, tgt, n) # {}}
       IN IF withRemoved # {}
          THEN {Refusal(v, "Refusing to remove columns", RemovedColumns(cur, tgt, n), n) :
                  n \in withRemoved}
          ELSE IF c.removed_tables # {}
          THEN {Refusal(v, "Refusing to delete tables", c.removed_tables, None)}
          ELSE {}
  ELSE {}

(***************************************************************************)
(* Initial states: a live database, a migrator constructed for a target    *)
(* schema, no call running.  The target schema is held as the catalog its  *)
(* DDL describes; its text is the stored text of its entries.              *)
(***************************************************************************)
Row(cols, k) == [c \in cols |-> <<c, k>>]
Rows(cols, n) == [k \in 1..n |-> Row(cols, k)]

LiveColSets(n) == IF n = "t1" THEN {{"a", "b"}, {"a", "b", "c"}} ELSE {{"a", "b"}}
TargetColSets(n) == IF n = "t1" THEN {{"a", "b"}, {"a", "b", "c"}} ELSE {{"a", "b"}, {"c"}}
TargetStyles == {[quoted |-> FALSE, lay |-> "spaced"],
                 [quoted |-> FALSE, lay |-> "compact"],
                 [quoted |-> TRUE, lay |-> "spaced"]}

Maps(keys, Values(_)) ==
  UNION {{f \in [S -> UNION {Values(k) : k \in S}] : \A k \in S : f[k] \in Values(k)} :
           S \in SUBSET keys}

LiveTable(n) ==
  {[cols |-> cs, quoted |-> FALSE, lay |-> "spaced", rows |-> Rows(cs, MaxRows)] :
     cs \in LiveColSets(n)}

TargetTable(n, st) ==
  {[cols |-> cs, quoted |-> st.quoted, lay |-> st.lay, rows |-> <<>>] :
     cs \in TargetColSets(n)}

LiveIndex(i) == {[tbl |-> "t1", col |-> "a", lay |-> "spaced"]}
TargetIndex(i, st) == {[tbl |-> t, col |-> "a", lay |-> st.lay] : t \in TableNames}

ValidSchema(s) ==
  \A i \in DOMAIN s.indices :
    /\ s.indices[i].tbl \in DOMAIN s.tables
    /\ s.indices[i].col \in s.tables[s.indices[i].tbl].cols

LiveDatabases ==
  {d \in [tables : Maps(TableNames, LiveTable),
          indices : Maps(IndexNames, LiveIndex),
          user_version : 0..MaxVersion] : ValidSchema(d)}

TargetSchemas ==
  UNION {[tables : Maps(TableNames, LAMBDA n : TargetTable(n, st)),
          indices : Maps(IndexNames, LAMBDA i : TargetIndex(i, st)),
          user_version : 0..MaxVersion] : st \in TargetStyles}

\* Nothing printed.
NoOutput == [verdict |-> None, tables |-> {}, indices |-> {}, columns |-> {}]

\* Nothing compared yet.
NoCompare == [current |-> <<>>, target |-> <<>>, tokens |-> <<>>, target_tokens |-> <<>>,
              current_sql |-> <<>>, target_sql |-> <<>>, state |-> None]

(***************************************************************************)
(* Sessions: table user_sessions and the clock.  An instant is a second    *)
(* and a fraction of it; the table stores instants as text.                *)
(***************************************************************************)
Fractions == {0, 5}
Instants == (0..MaxTime) \X Fractions
Hour == 1
SessionTokens == {"k1", "k2"}

Earlier(a, b) == a[1] < b[1] \/ (a[1] = b[1] /\ a[2] < b[2])

\* The text sqlx binds for a NaiveDateTime, "%F %T%.f": the fraction is
\* written only when it is not zero.
EncodeTime(t) == IF t[2] = 0 THEN <<t[1]>> ELSE <<t[1], t[2]>>
DecodeTime(s) == IF Len(s) = 1 THEN <<s[1], 0>> ELSE <<s[1], s[2]>>

\* The order of SQLite on texts: the first place that differs decides, a
\* proper prefix is less.
RECURSIVE TextLess(_, _)
TextLess(a, b) ==
  IF b = <<>> THEN FALSE
  ELSE IF a = <<>> THEN TRUE
  ELSE IF Head(a) # Head(b) THEN Head(a) < Head(b)
  ELSE TextLess(Tail(a), Tail(b))

NoSession == [token |-> None, user_id |-> 0, expires_at |-> <<0, 0>>]
NoRet == [op |-> None, token |-> None, ok |-> TRUE, fault |-> FALSE, error |-> None,
          text |-> None, count |-> 0, session |-> NoSession]
NoWas == [deleted |-> EmptyMap, op |-> None, ok |-> TRUE, created |-> {}, invalidated |-> {}]

\* No request is with the guard.
NoRequest == [pc |-> None, token |-> None, arrived |-> <<0, 0>>, after |-> FALSE,
              session |-> NoSession, checked |-> <<0, 0>>, outcome |-> None]

\* No session yet: the table is empty.
NoSessions ==
  /\ user_sessions = EmptyMap
  /\ now = <<0, 0>>
  /\ ret = NoRet
  /\ was = NoWas
  /\ req = NoRequest

\* DeclarativeMigrator::new
New(target_schema, allow_deletions) ==
  [target_schema |-> target_schema, allow_deletions |-> allow_deletions,
   schema_changes_made |-> 0]

NoLoc == [todo |-> {}, table |-> None, current_indices |-> EmptyMap, err |-> None]
NoHist == [calls |-> 0, faults |-> {}, failed_statement |-> None, vacuums |-> 0,
           committed |-> FALSE, prev_allow |-> FALSE]

InitWith(v) ==
  /\ db \in LiveDatabases
  /\ tx = db
  /\ txOpen = FALSE
  /\ pristine = None
  /\ migrator \in {New(t, a) : t \in TargetSchemas, a \in BOOLEAN}
  /\ variant = v
  /\ pc = "idle"
  /\ changes = NoChanges
  /\ loc = NoLoc
  /\ result = None
  /\ pre = db
  /\ log = <<>>
  /\ hist = NoHist
  /\ env = None
  /\ entry = "migrate"
  /\ stdout = NoOutput
  /\ cascade = {}
  /\ cmp = NoCompare
  /\ NoSessions

Init == InitWith("database")

(***************************************************************************)
(* migrate: one action per database operation.                             *)
(***************************************************************************)
IsBlank(target_schema) ==
  /\ DOMAIN target_schema.tables = {}
  /\ DOMAIN target_schema.indices = {}
  /\ target_schema.user_version = 0

\* The call returns: the pristine pool and an open transaction are dropped
\* (dropping an open transaction rolls it back).
Return(res, d) ==
  /\ pc' = "done"
  /\ result' = res
  /\ pristine' = None
  /\ txOpen' = FALSE
  /\ db' = d
  /\ tx' = d
  /\ changes' = NoChanges
  /\ loc' = NoLoc

\* An operation of migrate failed with a database error: "?" returns it.
ReturnDbError(op) ==
  /\ Return(ResultErr(DbError(variant, op)), db)
  /\ hist' = [hist EXCEPT !.faults = @ \cup {op}]
  /\ UNCHANGED <<migrator, caller, pre, log>>

\* A caller holding a migrator calls migrate, again on the same value or on a
\* new one for the same target schema.
StartMigrate ==
  /\ pc \in {"idle", "done"}
  /\ hist.calls < MaxCalls
  /\ pc = "done" => result.ok
  /\ \E m \in {migrator} \cup
              (IF pc = "done"
               THEN {New(migrator.target_schema, a) : a \in BOOLEAN} ELSE {}) :
       migrator' = m
  /\ pc' = "connect"
  /\ pre' = db
  /\ log' = <<>>
  /\ result' = None
  /\ hist' = [NoHist EXCEPT !.calls = hist.calls + 1,
                            !.prev_allow = (pc = "done" /\ migrator.allow_deletions)]
  /\ UNCHANGED <<db, tx, txOpen, pristine, caller, changes, loc>>

\* A migrate that runs the target DDL on the live pool: the tables it could
\* create are there when the DDL fails.
BuildTargetOnLive ==
  /\ pc = "connect"
  /\ LET target == migrator.target_schema
         made == [n \in DOMAIN db.tables \cup DOMAIN target.tables |->
                    IF n \in DOMAIN db.tables THEN db.tables[n] ELSE target.tables[n]]
     IN IF ~IsBlank(target) /\ ~ValidSchema(target)
        THEN /\ Return(ResultErr(PristineError(variant)), [db EXCEPT !.tables = made])
             /\ UNCHANGED <<migrator, caller, pre, log, hist>>
        ELSE /\ pristine' = target
             /\ pc' = "begin"
             /\ UNCHANGED <<db, tx, txOpen, migrator, caller, changes, loc, result,
                            pre, log, hist>>

\* SqlitePool::connect("sqlite::memory:") and raw_sql(target_schema)
BuildPristine ==
  /\ pc = "connect"
  /\ \E fault \in BOOLEAN :
       IF fault
       THEN ReturnDbError("connect")
       ELSE IF ~IsBlank(migrator.target_schema) /\ ~ValidSchema(migrator.target_schema)
       THEN /\ Return(ResultErr(PristineError(variant)), db)
            /\ UNCHANGED <<migrator, caller, pre, log, hist>>
       ELSE /\ pristine' = migrator.target_schema
            /\ pc' = "begin"
            /\ UNCHANGED <<db, tx, txOpen, migrator, caller, changes, loc, result,
                           pre, log, hist>>

\* self.pool.begin()
Begin ==
  /\ pc = "begin"
  /\ \E fault \in BOOLEAN :
       IF fault
       THEN ReturnDbError("begin")
       ELSE /\ txOpen' = TRUE
            /\ tx' = db
            /\ pc' = "defer"
            /\ UNCHANGED <<db, pristine, migrator, caller, changes, loc, result,
                           pre, log, hist>>

\* PRAGMA defer_foreign_keys = TRUE
DeferForeignKeys ==
  /\ pc = "defer"
  /\ \E fault \in BOOLEAN :
       IF fault
       THEN ReturnDbError("defer_foreign_keys")
       ELSE /\ pc' = "analyze"
            /\ UNCHANGED <<db, tx, txOpen, pristine, migrator, caller, changes, loc,
                           result, pre, log, hist>>

\* Where apply_changes starts for a plan: the loop over new_tables when there
\* are any, the loop over modified_tables otherwise.
ApplyEntry(c) ==
  IF c.new_tables # {}
  THEN [pc |-> "new_tables", todo |-> c.new_tables]
  ELSE [pc |-> "modify", todo |-> c.modified_tables]

\* apply_changes returns Err(e): migrate goes on to tx.rollback().  cause says
\* what e comes from: "refusal", an injected "fault" of a read, or a "statement"
\* that failed (injected is whether the failure was injected).
Abort(e, cause, injected) ==
  /\ pc' = "rollback"
  /\ loc' = [NoLoc EXCEPT !.err = e]
  /\ hist' = [hist EXCEPT
        !.faults = IF injected THEN @ \cup {e.op} ELSE @,
        !.failed_statement = IF cause = "statement" THEN e.op ELSE @]
  /\ UNCHANGED <<db, tx, txOpen, pristine, migrator, caller, changes, result, pre, log>>

\* analyze_changes, the test of has_any_changes and, when the plan has changes,
\* the read of the target tables that opens apply_changes
Analyze ==
  /\ pc = "analyze"
  /\ \E fault \in {"none", "analyze", "get_tables"} :
       LET c == Diff(variant, tx, pristine)
           refusals == GateErrors(variant, migrator.allow_deletions, c, tx, pristine)
       IN IF fault = "analyze"
          THEN ReturnDbError("analyze")
          ELSE IF refusals # {}
          THEN /\ fault = "none"
               /\ \E e \in refusals : Return(ResultErr(e), db)
               /\ UNCHANGED <<migrator, caller, pre, log, hist>>
          ELSE IF fault = "get_tables"
          THEN /\ has_any_changes(c)
               /\ Abort(DbError(variant, "get_tables"), "fault", TRUE)
          ELSE /\ changes' = c
               /\ IF has_any_changes(c)
                  THEN /\ pc' = ApplyEntry(c).pc
                       /\ loc' = [NoLoc EXCEPT !.todo = ApplyEntry(c).todo]
                  ELSE /\ pc' = "commit_empty"
                       /\ loc' = NoLoc
               /\ UNCHANGED <<db, tx, txOpen, pristine, migrator, caller, result,
                              pre, log, hist>>

\* tx.commit() of the empty transaction; Ok(false)
CommitEmpty ==
  /\ pc = "commit_empty"
  /\ \E fault \in BOOLEAN :
       IF fault
       THEN ReturnDbError("commit")
       ELSE /\ Return(ResultOk(FALSE), tx)
            /\ hist' = [hist EXCEPT !.committed = TRUE]
            /\ UNCHANGED <<migrator, caller, pre, log>>

(***************************************************************************)
(* apply_changes, migrate_table and migrate_indices.                       *)
(***************************************************************************)
\* Where the code goes after a statement: on to a position of the loops, or out
\* of apply_changes with an error.
At(p, l) == [pc |-> p, loc |-> l, faults |-> {}]
Refused(e) == [pc |-> "rollback", loc |-> [NoLoc EXCEPT !.err = e], faults |-> {}]
Failed(e) == [pc |-> "rollback", loc |-> [NoLoc EXCEPT !.err = e], faults |-> {e.op}]

\* A statement executed on the pool, outside the transaction: what it does is
\* committed at once.
ExecuteOnPool(what, name, stmt, next) ==
  LET r == Execute(tx, stmt) IN
  /\ r.ok
  /\ tx' = r.db
  /\ db' = r.db
  /\ migrator' = [migrator EXCEPT !.schema_changes_made = @ + 1]
  /\ log' = Append(log, [what |-> what, name |-> name])
  /\ pc' = next.pc
  /\ loc' = next.loc
  /\ hist' = [hist EXCEPT !.faults = @ \cup next.faults]
  /\ UNCHANGED <<txOpen, pristine, caller, changes, result, pre>>

\* execute_schema_change(description, sql, tx), then the code that follows it
\* up to the next statement.
ExecuteSchemaChange(what, name, stmt, next) ==
  \E fault \in BOOLEAN :
    LET r == Execute(tx, stmt) IN
    IF ~r.ok
    THEN /\ ~fault
         /\ Abort(DbError(variant, what), "statement", FALSE)
    ELSE IF fault
    THEN Abort(DbError(variant, what), "statement", TRUE)
    ELSE /\ tx' = r.db
         /\ migrator' = [migrator EXCEPT !.schema_changes_made = @ + 1]
         /\ log' = Append(log, [what |-> what, name |-> name])
         /\ pc' = next.pc
         /\ loc' = next.loc
         /\ hist' = [hist EXCEPT !.faults = @ \cup next.faults]
         /\ UNCHANGED <<db, txOpen, pristine, caller, changes, result, pre>>

\* Position after the index loops: "Apply pragma changes" when the plan has one.
PragmaEntry ==
  IF changes.pragma_changes THEN At("pragma", NoLoc) ELSE At("commit", NoLoc)

IndexChanged(current_indices, target_indices, i) ==
  NormIndexTexts[i, IDesc(current_indices[i])] # NormIndexTexts[i, IDesc(target_indices[i])]

\* Second loop of migrate_indices: the target indices it executes something for.
UpdateEntry(current_indices) ==
  LET upd == {i \in DOMAIN pristine.indices :
                i \in DOMAIN current_indices =>
                  IndexChanged(current_indices, pristine.indices, i)}
  IN IF upd # {}
     THEN At("idx_update", [NoLoc EXCEPT !.todo = upd, !.current_indices = current_indices])
     ELSE PragmaEntry

\* First loop of migrate_indices: the current indices the target does not have.
IndexEntry(current_indices) ==
  LET obsolete == DOMAIN current_indices \ DOMAIN pristine.indices
  IN IF obsolete # {}
     THEN At("idx_drop", [NoLoc EXCEPT !.todo = obsolete,
                                      !.current_indices = current_indices])
     ELSE UpdateEntry(current_indices)

\* for table_name in &changes.new_tables
CreateNewTable ==
  /\ pc = "new_tables"
  /\ \E t \in loc.todo :
       ExecuteSchemaChange("Create new table", t,
         [op |-> "create", sql |-> TableTexts[t, Desc(pristine.tables[t])]],
         IF loc.todo = {t}
         THEN At("modify", [NoLoc EXCEPT !.todo = changes.modified_tables])
         ELSE At("new_tables", [loc EXCEPT !.todo = @ \ {t}]))

\* target_table.sql.replace("CREATE TABLE <name>", "CREATE TABLE <name>_migration_new")
TempSql(table_name, sql) ==
  Replace(sql, KwCreateTable \o NameChars(table_name),
               KwCreateTable \o NameChars(TempName(table_name)))

\* A rebuild that finds no column to copy.
NoCommonColumns(cur, tgt, table_name) == {}

CommonColumns(cur, tgt, table_name) ==
  get_table_columns(cur, table_name) \cap get_table_columns(tgt, table_name)

\* Body of the loop over modified_tables up to the creation of the temporary
\* table in migrate_table, with the checks before and after it.
BeginTable ==
  /\ pc = "modify"
  /\ \E t \in loc.todo, fault \in {"none", "columns_before", "columns_after"} :
       /\ fault = "columns_before" => ~migrator.allow_deletions
       /\ IF fault = "columns_before"
          THEN Abort(DbError(variant, "get_table_columns"), "fault", TRUE)
          ELSE IF ~migrator.allow_deletions /\ RemovedColumns(tx, pristine, t) # {}
          THEN /\ fault = "none"
               /\ Abort(Refusal(variant, "Migration requires deleting columns",
                                RemovedColumns(tx, pristine, t), t), "refusal", FALSE)
          ELSE ExecuteSchemaChange("Create temporary table for", t,
                 [op |-> "create",
                  sql |-> TempSql(t, TableTexts[t, Desc(pristine.tables[t])])],
                 IF fault = "columns_after"
                 THEN Failed(DbError(variant, "get_table_columns"))
                 ELSE IF RemovedColumns(tx, pristine, t) # {} /\ ~migrator.allow_deletions
                 THEN Refused(Refusal(variant, "Refusing to remove columns",
                                      RemovedColumns(tx, pristine, t), t))
                 ELSE IF CommonColumns(tx, pristine, t) # {}
                 THEN At("mt_copy", [loc EXCEPT !.table = t])
                 ELSE At("mt_drop", [loc EXCEPT !.table = t]))

\* The orders in which a hash set may yield its elements.
Orders(set) ==
  {o \in [1..Cardinality(set) -> set] : \A i, j \in DOMAIN o : o[i] = o[j] => i = j}

\* A copy whose SELECT list names the columns in another order than its
\* INSERT list.
CrossedCopySql(temp_name, columns, table_name) ==
  [op |-> "copy", into |-> temp_name, insert_cols |-> columns,
   select_cols |-> Reverse(columns), from |-> table_name]

\* format!("INSERT INTO {} ({}) SELECT {} FROM {}", temp_name, columns_str, columns_str, table_name)
CopySql(temp_name, columns, table_name) ==
  [op |-> "copy", into |-> temp_name, insert_cols |-> columns,
   select_cols |-> columns, from |-> table_name]

CopyData ==
  /\ pc = "mt_copy"
  /\ \E columns \in Orders(CommonColumns(tx, pristine, loc.table)) :
       ExecuteSchemaChange("Copy data to new", loc.table,
         CopySql(TempName(loc.table), columns, loc.table),
         At("mt_drop", loc))

DropOldTable ==
  /\ pc = "mt_drop"
  /\ ExecuteSchemaChange("Drop old table", loc.table,
       [op |-> "drop_table", name |-> loc.table],
       At("mt_rename", loc))

RenameNewTable ==
  /\ pc = "mt_rename"
  /\ ExecuteSchemaChange("Rename new table to", loc.table,
       [op |-> "rename", from |-> TempName(loc.table), to |-> loc.table],
       At("modify", [NoLoc EXCEPT !.todo = loc.todo \ {loc.table}]))

\* An apply_changes that goes on to the removed tables without the check.
EndModifyUnchecked ==
  /\ pc = "modify"
  /\ loc.todo = {}
  /\ pc' = "remove"
  /\ loc' = [NoLoc EXCEPT !.todo = changes.removed_tables]
  /\ UNCHANGED <<db, tx, txOpen, pristine, migrator, caller, changes, result,
                 pre, log, hist>>

\* "Remove tables - error if removal is requested but not allowed"
EndModify ==
  /\ pc = "modify"
  /\ loc.todo = {}
  /\ IF changes.removed_tables # {} /\ ~migrator.allow_deletions
     THEN Abort(Refusal(variant, "Migration requires deleting tables",
                        changes.removed_tables, None), "refusal", FALSE)
     ELSE /\ pc' = "remove"
          /\ loc' = [NoLoc EXCEPT !.todo = changes.removed_tables]
          /\ UNCHANGED <<db, tx, txOpen, pristine, migrator, caller, changes, result,
                         pre, log, hist>>

\* A loop over removed_tables that also runs among the rebuilds.
DropTableEarly ==
  \/ /\ pc = "modify"
     /\ loc.todo # {}
     /\ \E t \in changes.removed_tables \cap DOMAIN tx.tables :
          ExecuteSchemaChange("Drop table", t, [op |-> "drop_table", name |-> t],
            At("modify", loc))
  \/ /\ pc = "remove"
     /\ \E t \in loc.todo :
          ExecuteSchemaChange("Drop table", t, [op |-> "drop_table", name |-> t],
            At("remove", [loc EXCEPT !.todo = @ \ {t}]))

\* for table_name in &changes.removed_tables
DropTable ==
  /\ pc = "remove"
  /\ \E t \in loc.todo :
       ExecuteSchemaChange("Drop table", t, [op |-> "drop_table", name |-> t],
         At("remove", [loc EXCEPT !.todo = @ \ {t}]))

\* An index reconciliation computed from the indices of before the table
\* steps.
ReadIndicesFromPlan ==
  /\ pc = "remove"
  /\ loc.todo = {}
  /\ LET indices_to_remove == DOMAIN pre.indices \ DOMAIN pristine.indices IN
     IF indices_to_remove # {} /\ ~migrator.allow_deletions
     THEN Abort(Refusal(variant, "Migration requires deleting indices",
                        indices_to_remove, None), "refusal", FALSE)
     ELSE /\ pc' = IndexEntry(pre.indices).pc
          /\ loc' = IndexEntry(pre.indices).loc
          /\ UNCHANGED <<db, tx, txOpen, pristine, migrator, caller, changes, result,
                         pre, log, hist>>

\* get_indices(tx), get_indices_from_pool(pristine) and the check of
\* indices_to_remove, after the table steps.
ReadIndices ==
  /\ pc = "remove"
  /\ loc.todo = {}
  /\ \E fault \in BOOLEAN :
       LET indices_to_remove == DOMAIN tx.indices \ DOMAIN pristine.indices IN
       IF fault
       THEN Abort(DbError(variant, "get_indices"), "fault", TRUE)
       ELSE IF indices_to_remove # {} /\ ~migrator.allow_deletions
       THEN Abort(Refusal(variant, "Migration requires deleting indices",
                          indices_to_remove, None), "refusal", FALSE)
       ELSE /\ pc' = IndexEntry(tx.indices).pc
            /\ loc' = IndexEntry(tx.indices).loc
            /\ UNCHANGED <<db, tx, txOpen, pristine, migrator, caller, changes, result,
                           pre, log, hist>>

DropObsoleteIndex ==
  /\ pc = "idx_drop"
  /\ \E i \in loc.todo :
       ExecuteSchemaChange("Drop obsolete index", i, [op |-> "drop_index", name |-> i],
         IF loc.todo = {i}
         THEN UpdateEntry(loc.current_indices)
         ELSE At("idx_drop", [loc EXCEPT !.todo = @ \ {i}]))

AfterUpdate(i) ==
  IF loc.todo = {i} THEN PragmaEntry ELSE At("idx_update", [loc EXCEPT !.todo = @ \ {i}])

DropChangedIndex ==
  /\ pc = "idx_update"
  /\ \E i \in loc.todo :
       /\ i \in DOMAIN loc.current_indices
       /\ ExecuteSchemaChange("Drop changed index", i, [op |-> "drop_index", name |-> i],
            At("idx_recreate", [loc EXCEPT !.table = i]))

RecreateIndex ==
  /\ pc = "idx_recreate"
  /\ ExecuteSchemaChange("Recreate index", loc.table,
       [op |-> "create", sql |-> IndexTexts[loc.table, IDesc(pristine.indices[loc.table])]],
       AfterUpdate(loc.table))

CreateNewIndex ==
  /\ pc = "idx_update"
  /\ \E i \in loc.todo :
       /\ i \notin DOMAIN loc.current_indices
       /\ ExecuteSchemaChange("Create new index", i,
            [op |-> "create", sql |-> IndexTexts[i, IDesc(pristine.indices[i])]],
            AfterUpdate(i))

\* "Apply pragma changes": the target's user_version is read and, when it is
\* not 0, written to the live database.
SetUserVersion ==
  /\ pc = "pragma"
  /\ \E fault \in BOOLEAN :
       LET target_user_version == pristine.user_version IN
       IF fault
       THEN Abort(DbError(variant, "read user_version"), "fault", TRUE)
       ELSE IF target_user_version # 0
       THEN ExecuteSchemaChange("Set user_version to", target_user_version,
              [op |-> "user_version", value |-> target_user_version],
              At("commit", NoLoc))
       ELSE /\ pc' = "commit"
            /\ UNCHANGED <<db, tx, txOpen, pristine, migrator, caller, changes, loc,
                           result, pre, log, hist>>

(***************************************************************************)
(* The end of migrate.                                                     *)
(***************************************************************************)
\* tx.commit() after apply_changes returned Ok
Commit ==
  /\ pc = "commit"
  /\ \E fault \in BOOLEAN :
       IF fault
       THEN ReturnDbError("commit")
       ELSE /\ hist' = [hist EXCEPT !.committed = TRUE]
            /\ IF migrator.schema_changes_made > 0
               THEN /\ pc' = "vacuum"
                    /\ db' = tx
                    /\ txOpen' = FALSE
                    /\ UNCHANGED <<tx, pristine, changes, loc, result>>
               ELSE Return(ResultOk(migrator.schema_changes_made > 0), tx)
            /\ UNCHANGED <<migrator, caller, pre, log>>

\* VACUUM on the pool, outside the transaction
Vacuum ==
  /\ pc = "vacuum"
  /\ \E fault \in BOOLEAN :
       IF fault
       THEN ReturnDbError("vacuum")
       ELSE /\ Return(ResultOk(migrator.schema_changes_made > 0), db)
            /\ hist' = [hist EXCEPT !.vacuums = @ + 1]
            /\ UNCHANGED <<migrator, caller, pre, log>>

\* A migrate that keeps the work of the failed attempt: commit where the code
\* rolls back.
CommitOnError ==
  /\ pc = "rollback"
  /\ Return(ResultErr(loc.err), tx)
  /\ UNCHANGED <<migrator, caller, pre, log, hist>>

\* tx.rollback() after apply_changes returned Err(e)
Rollback ==
  /\ pc = "rollback"
  /\ \E fault \in BOOLEAN :
       IF fault
       THEN ReturnDbError("rollback")
       ELSE /\ Return(ResultErr(loc.err), db)
            /\ UNCHANGED <<migrator, caller, pre, log, hist>>

Next ==
  \/ StartMigrate
  \/ BuildPristine
  \/ Begin
  \/ DeferForeignKeys
  \/ Analyze
  \/ CommitEmpty
  \/ CreateNewTable
  \/ BeginTable
  \/ CopyData
  \/ DropOldTable
  \/ RenameNewTable
  \/ EndModify
  \/ DropTable
  \/ ReadIndices
  \/ DropObsoleteIndex
  \/ DropChangedIndex
  \/ RecreateIndex
  \/ CreateNewIndex
  \/ SetUserVersion
  \/ Commit
  \/ Vacuum
  \/ Rollback

Spec == Init /\ [][Next]_vars

(***************************************************************************)
(* The lib copy: migrate_database_declaratively, get_schema_changes and    *)
(* the get_destructive_migrations binary on top of it.                     *)
(***************************************************************************)
\* Texts the environment variable may hold; None when it is not set.
EnvValues == {None, "true", "false", "1"}

\* str::parse::<bool>: "true" and "false" parse, nothing else does.
ParseBool(s) ==
  IF s = "true" THEN [ok |-> TRUE, value |-> TRUE]
  ELSE IF s = "false" THEN [ok |-> TRUE, value |-> FALSE]
  ELSE [ok |-> FALSE, value |-> FALSE]

\* env::var("ALLOW_DESTRUCTIVE_MIGRATIONS").unwrap_or_else(|_| "false").parse::<bool>().unwrap_or(false)
AllowDeletionsFromEnv(e) ==
  LET text == IF e = None THEN "false" ELSE e
      parsed == ParseBool(text)
  IN IF parsed.ok THEN parsed.value ELSE FALSE

\* Ok(ChangesNeeded) of get_changes
ResultPlan(c) == [ok |-> TRUE, plan |-> c]

InitLib ==
  /\ db \in LiveDatabases
  /\ tx = db
  /\ txOpen = FALSE
  /\ pristine = None
  /\ migrator \in {New(t, FALSE) : t \in TargetSchemas}
  /\ variant = "lib"
  /\ pc = "idle"
  /\ changes = NoChanges
  /\ loc = NoLoc
  /\ result = None
  /\ pre = db
  /\ log = <<>>
  /\ hist = NoHist
  /\ env \in EnvValues
  /\ entry = None
  /\ stdout = NoOutput
  /\ cascade = {}
  /\ cmp = NoCompare
  /\ NoSessions

\* The process enters the lib by function f with the target schema at hand;
\* every entry point constructs its own migrator.
Enter(f, allow_deletions, start) ==
  /\ pc = "idle"
  /\ migrator' = New(migrator.target_schema, allow_deletions)
  /\ entry' = f
  /\ stdout' = NoOutput
  /\ pc' = start
  /\ pre' = db
  /\ log' = <<>>
  /\ result' = None
  /\ hist' = [NoHist EXCEPT !.calls = hist.calls + 1]
  /\ UNCHANGED <<db, tx, txOpen, pristine, variant, env, cascade, cmp, sessions, changes, loc>>

\* migrate_database_declaratively(pool, target_schema)
MigrateDatabaseDeclaratively ==
  Enter("migrate_database_declaratively", AllowDeletionsFromEnv(env), "connect")

\* get_schema_changes(pool, target_schema)
GetSchemaChanges == Enter("get_schema_changes", FALSE, "gc_connect")

\* main of the binary, up to its call of get_schema_changes
GetDestructiveChanges == Enter("get_destructive_changes", FALSE, "gc_connect")

\* get_changes: SqlitePool::connect("sqlite::memory:") and raw_sql(target_schema)
GetChangesPristine ==
  /\ pc = "gc_connect"
  /\ \E fault \in BOOLEAN :
       IF fault
       THEN ReturnDbError("connect")
       ELSE IF ~IsBlank(migrator.target_schema) /\ ~ValidSchema(migrator.target_schema)
       THEN /\ Return(ResultErr(PristineError(variant)), db)
            /\ UNCHANGED <<migrator, caller, pre, log, hist>>
       ELSE /\ pristine' = migrator.target_schema
            /\ pc' = "gc_begin"
            /\ UNCHANGED <<db, tx, txOpen, migrator, caller, changes, loc, result,
                           pre, log, hist>>

\* get_changes: self.pool.begin()
GetChangesBegin ==
  /\ pc = "gc_begin"
  /\ \E fault \in BOOLEAN :
       IF fault
       THEN ReturnDbError("begin")
       ELSE /\ txOpen' = TRUE
            /\ tx' = db
            /\ pc' = "gc_analyze"
            /\ UNCHANGED <<db, pristine, migrator, caller, changes, loc, result,
                           pre, log, hist>>

\* A get_changes that applies the policy of the database copy to its plan.
GatedGetChanges ==
  /\ pc = "gc_analyze"
  /\ LET c == Diff(variant, tx, pristine)
         refusals == GateErrors("database", migrator.allow_deletions, c, tx, pristine)
     IN /\ IF refusals # {}
           THEN \E e \in refusals : result' = ResultErr(e)
           ELSE result' = ResultPlan(c)
        /\ pc' = IF entry = "get_destructive_changes" /\ refusals = {} THEN "main" ELSE "done"
  /\ pristine' = None
  /\ txOpen' = FALSE
  /\ tx' = db
  /\ UNCHANGED <<db, migrator, caller, changes, loc, pre, log, hist>>

\* A get_changes that returns the plan and leaves its transaction open.
LeakedGetChanges ==
  /\ pc = "gc_analyze"
  /\ result' = ResultPlan(Diff(variant, tx, pristine))
  /\ pc' = IF entry = "get_destructive_changes" THEN "main" ELSE "done"
  /\ pristine' = None
  /\ UNCHANGED <<db, tx, txOpen, migrator, caller, changes, loc, pre, log, hist>>

\* get_changes: analyze_changes(&mut tx, &pristine_pool), returned as it is; the
\* transaction and the pristine pool are dropped, the transaction uncommitted.
GetChangesAnalyze ==
  /\ pc = "gc_analyze"
  /\ \E fault \in BOOLEAN :
       IF fault
       THEN ReturnDbError("analyze")
       ELSE /\ result' = ResultPlan(Diff(variant, tx, pristine))
            /\ pc' = IF entry = "get_destructive_changes" THEN "main" ELSE "done"
            /\ pristine' = None
            /\ txOpen' = FALSE
            /\ tx' = db
            /\ UNCHANGED <<db, migrator, caller, changes, loc, pre, log, hist>>

\* get_destructive_changes: the DestructiveChanges built from the plan, with one
\* entry of columns_removed for every modified table.
get_destructive_changes(changes_needed) ==
  [tables_removed |-> changes_needed.removed_tables,
   indexes_removed |-> changes_needed.removed_indices,
   columns_removed |-> [n \in changes_needed.modified_tables |->
                          changes_needed.modified_info[n].removed_columns]]

Passed == "Changes passed the check"
Detected == "Destructive changes detected:"

\* What main prints for a DestructiveChanges: the verdict and, under
\* "detected", the removed tables, indices and columns.
Printed(destructive_changes) ==
  LET no_destructive_changes ==
        /\ Cardinality(destructive_changes.tables_removed) = 0
        /\ Cardinality(destructive_changes.indexes_removed) = 0
        /\ Cardinality(DOMAIN destructive_changes.columns_removed) = 0
  IN IF no_destructive_changes
     THEN [verdict |-> Passed, tables |-> {}, indices |-> {}, columns |-> {}]
     ELSE [verdict |-> Detected,
           tables |-> destructive_changes.tables_removed,
           indices |-> destructive_changes.indexes_removed,
           columns |-> UNION {{<<n, c>> : c \in destructive_changes.columns_removed[n]} :
                                n \in DOMAIN destructive_changes.columns_removed}]

\* main of the binary after get_destructive_changes returned Ok
Main ==
  /\ pc = "main"
  /\ stdout' = Printed(get_destructive_changes(result.plan))
  /\ pc' = "done"
  /\ UNCHANGED <<db, tx, txOpen, pristine, migrator, variant, env, entry, cascade, cmp, sessions, changes, loc,
                 result, pre, log, hist>>

NextLib ==
  \/ MigrateDatabaseDeclaratively
  \/ GetSchemaChanges
  \/ GetDestructiveChanges
  \/ GetChangesPristine
  \/ GetChangesBegin
  \/ GetChangesAnalyze
  \/ Main
  \/ BuildPristine
  \/ Begin
  \/ DeferForeignKeys
  \/ Analyze
  \/ CommitEmpty
  \/ CreateNewTable
  \/ BeginTable
  \/ CopyData
  \/ DropOldTable
  \/ RenameNewTable
  \/ EndModify
  \/ DropTable
  \/ ReadIndices
  \/ DropObsoleteIndex
  \/ DropChangedIndex
  \/ RecreateIndex
  \/ CreateNewIndex
  \/ SetUserVersion
  \/ Commit
  \/ Vacuum
  \/ Rollback

SpecLib == InitLib /\ [][NextLib]_vars

(***************************************************************************)
(* A schema with a foreign key ON DELETE CASCADE, as technique_tags has on *)
(* techniques and tags: the rows of t2 reference the rows of t1.           *)
(***************************************************************************)
InitCascade ==
  /\ db \in {d \in LiveDatabases : "t2" \in DOMAIN d.tables => "t1" \in DOMAIN d.tables}
  /\ tx = db
  /\ txOpen = FALSE
  /\ pristine = None
  /\ migrator \in {New(t, a) : t \in TargetSchemas, a \in BOOLEAN}
  /\ variant = "database"
  /\ pc = "idle"
  /\ changes = NoChanges
  /\ loc = NoLoc
  /\ result = None
  /\ pre = db
  /\ log = <<>>
  /\ hist = NoHist
  /\ env = None
  /\ entry = "migrate"
  /\ stdout = NoOutput
  /\ cascade = {<<"t2", "t1">>}
  /\ cmp = NoCompare
  /\ NoSessions

SpecCascade == InitCascade /\ [][Next]_vars

(***************************************************************************)
(* A live database that holds a table named t2_migration_new, the name     *)
(* migrate_table gives the temporary table of a rebuild of t2.             *)
(***************************************************************************)
WithTempNamed(d) ==
  [d EXCEPT !.tables = Put(@, TempName("t2"),
     [cols |-> {"a", "b"}, quoted |-> FALSE, lay |-> "spaced",
      rows |-> Rows({"a", "b"}, MaxRows)])]

InitCollision ==
  /\ db \in {WithTempNamed(d) : d \in LiveDatabases}
  /\ tx = db
  /\ txOpen = FALSE
  /\ pristine = None
  /\ migrator \in {New(t, a) : t \in TargetSchemas, a \in BOOLEAN}
  /\ variant = "database"
  /\ pc = "idle"
  /\ changes = NoChanges
  /\ loc = NoLoc
  /\ result = None
  /\ pre = db
  /\ log = <<>>
  /\ hist = NoHist
  /\ env = None
  /\ entry = "migrate"
  /\ stdout = NoOutput
  /\ cascade = {}
  /\ cmp = NoCompare
  /\ NoSessions

SpecCollision == InitCollision /\ [][Next]_vars

(***************************************************************************)
(* Both copies of the migrator: migrate of the database module, and        *)
(* migrate and get_changes of the lib.                                     *)
(***************************************************************************)
InitBoth == Init \/ InitLib

NextBoth ==
  \/ variant = "database" /\ Next
  \/ variant = "lib" /\ NextLib

SpecBoth == InitBoth /\ [][NextBoth]_vars

(***************************************************************************)
(* Cancellation: the host drops the future of migrate at an await.         *)
(***************************************************************************)
\* The positions at which migrate is suspended on an operation.
Suspended == pc \notin {"idle", "done", "cancelled"}

\* A cancellation that keeps the work of the open transaction.
CancelKeepingWork ==
  /\ Suspended
  /\ pc' = "cancelled"
  /\ db' = tx
  /\ txOpen' = FALSE
  /\ pristine' = None
  /\ changes' = NoChanges
  /\ loc' = NoLoc
  /\ UNCHANGED <<tx, migrator, caller, result, pre, log, hist>>

\* The future is dropped: the transaction, when one is open, is dropped
\* uncommitted and rolls back; the pristine pool is dropped.
Cancel ==
  /\ Suspended
  /\ pc' = "cancelled"
  /\ tx' = db
  /\ txOpen' = FALSE
  /\ pristine' = None
  /\ changes' = NoChanges
  /\ loc' = NoLoc
  /\ UNCHANGED <<db, migrator, caller, result, pre, log, hist>>

NextCancel == Next \/ Cancel

SpecCancel == Init /\ [][NextCancel]_vars

(***************************************************************************)
(* The executor on its own: apply_changes handed a plan no gate has seen.  *)
(***************************************************************************)
\* migrate with the plan of the diff passed to apply_changes as it is,
\* whatever it removes.
HandPlan ==
  /\ pc = "analyze"
  /\ \E fault \in {"none", "analyze", "get_tables"} :
       LET c == Diff(variant, tx, pristine)
       IN IF fault = "analyze"
          THEN ReturnDbError("analyze")
          ELSE IF fault = "get_tables"
          THEN /\ has_any_changes(c)
               /\ Abort(DbError(variant, "get_tables"), "fault", TRUE)
          ELSE /\ changes' = c
               /\ IF has_any_changes(c)
                  THEN /\ pc' = ApplyEntry(c).pc
                       /\ loc' = [NoLoc EXCEPT !.todo = ApplyEntry(c).todo]
                  ELSE /\ pc' = "commit_empty"
                       /\ loc' = NoLoc
               /\ UNCHANGED <<db, tx, txOpen, pristine, migrator, caller, result,
                              pre, log, hist>>

NextExecutor ==
  \/ StartMigrate
  \/ BuildPristine
  \/ Begin
  \/ DeferForeignKeys
  \/ HandPlan
  \/ CommitEmpty
  \/ CreateNewTable
  \/ BeginTable
  \/ CopyData
  \/ DropOldTable
  \/ RenameNewTable
  \/ EndModify
  \/ DropTable
  \/ ReadIndices
  \/ DropObsoleteIndex
  \/ DropChangedIndex
  \/ RecreateIndex
  \/ CreateNewIndex
  \/ SetUserVersion
  \/ Commit
  \/ Vacuum
  \/ Rollback

SpecExecutor == Init /\ [][NextExecutor]_vars

(***************************************************************************)
(* Another connection that writes to the live database during a migrate.   *)
(***************************************************************************)
\* A transaction that takes its lock only by its first write.
LockedByWrite == txOpen /\ log # <<>>

\* The transaction has read the live database (analyze_changes reads on tx)
\* and holds SQLite's lock on it until it ends: no other connection commits.
ReadLocked == txOpen /\ pc \notin {"defer", "analyze"}

\* Another connection commits one change (to one table or one index) while a
\* migrate is under way and does not hold the lock; a transaction that has
\* not read yet sees the change.  One such commit per call.
\* The tables and indices on which two databases differ.
ObjectsChanged(d, e) ==
  {<<"table", n>> : n \in {m \in DOMAIN d.tables \cup DOMAIN e.tables :
      \/ m \notin DOMAIN d.tables \cap DOMAIN e.tables
      \/ d.tables[m] # e.tables[m]}}
  \cup {<<"index", n>> : n \in {m \in DOMAIN d.indices \cup DOMAIN e.indices :
      \/ m \notin DOMAIN d.indices \cap DOMAIN e.indices
      \/ d.indices[m] # e.indices[m]}}

OtherWriter ==
  /\ pc \notin {"idle", "done", "vacuum"}
  /\ ~ReadLocked
  /\ db = pre
  /\ \E d \in LiveDatabases :
       /\ d.user_version = db.user_version
       /\ Cardinality(ObjectsChanged(db, d)) = 1
       /\ db' = d
       /\ tx' = d
  /\ UNCHANGED <<txOpen, pristine, migrator, caller, pc, changes, loc, result, pre, log,
                 hist>>

NextWriter == Next \/ OtherWriter

SpecWriter == Init /\ [][NextWriter]_vars

(***************************************************************************)
(* The comparison of two table texts in analyze_changes, on texts written  *)
(* out: a text is a sequence of tokens in a layout.                        *)
(***************************************************************************)
WordTokens == {<<"a">>, <<"a", "a">>}
PunctTokens == {<<"(">>}
LiteralTokens == {<<"'", " ", "'">>, <<"'", " ", " ", "'">>}
Tokens == WordTokens \cup PunctTokens \cup LiteralTokens

TokenSeqs == UNION {[1..n -> Tokens] : n \in 1..MaxTokens}

\* What may stand between two tokens, before the first and after the last:
\* nothing, whitespace, line comments; the last trailer is a comment that
\* ends at the end of the input.
Separators == {<<>>, <<" ">>, <<"\n", "\t">>, <<"-", "-", "a", "\n">>}
Leaders == {<<>>, <<" ">>}
Trailers == {<<>>, <<"\n">>, <<" ", "-", "-", "a">>}

\* A layout of tokens: leader, separators, trailer, and the positions of the
\* identifiers written in double quotes.  Two tokens with nothing between them
\* stay two tokens only next to punctuation.
TextLayouts(tokens) ==
  {l \in [lead : Leaders, seps : [1..(Len(tokens) - 1) -> Separators], trail : Trailers,
          quoted : SUBSET {i \in 1..Len(tokens) : tokens[i] \in WordTokens}] :
     \A i \in 1..(Len(tokens) - 1) :
       l.seps[i] = <<>> => tokens[i] \in PunctTokens \/ tokens[i + 1] \in PunctTokens}

\* The layout of a stored text: one space between tokens, nothing else.
Plain(tokens) ==
  [lead |-> <<>>, seps |-> [i \in 1..(Len(tokens) - 1) |-> <<" ">>], trail |-> <<>>,
   quoted |-> {}]

RECURSIVE RenderFrom(_, _, _)
RenderFrom(tokens, l, i) ==
  LET tok == IF i \in l.quoted THEN <<"\"">> \o tokens[i] \o <<"\"">> ELSE tokens[i]
  IN IF i = Len(tokens) THEN tok \o l.trail
     ELSE tok \o l.seps[i] \o RenderFrom(tokens, l, i + 1)

Render(tokens, l) == l.lead \o RenderFrom(tokens, l, 1)

\* A stored text of the live catalog and a text of the target DDL.
InitNormalize ==
  /\ cmp \in {[NoCompare EXCEPT !.current = Render(t, Plain(t)), !.tokens = t,
                               !.target = Render(u, l), !.target_tokens = u,
                               !.state = "given"] :
                <<t, u, l>> \in UNION {{<<t, u, l>> : l \in TextLayouts(u)} :
                                         <<t, u>> \in TokenSeqs \X TokenSeqs}}
  /\ db = EmptyDb
  /\ tx = db
  /\ txOpen = FALSE
  /\ pristine = None
  /\ migrator = New(EmptyDb, FALSE)
  /\ variant = "database"
  /\ pc = "analyze"
  /\ changes = NoChanges
  /\ loc = NoLoc
  /\ result = None
  /\ pre = db
  /\ log = <<>>
  /\ hist = NoHist
  /\ env = None
  /\ entry = "migrate"
  /\ stdout = NoOutput
  /\ cascade = {}
  /\ NoSessions

\* analyze_changes: normalize_sql of the current and of the target text of a
\* table on both sides; the table is modified when the two differ.
CompareTexts ==
  /\ cmp.state = "given"
  /\ LET current_sql == normalize_sql(cmp.current)
         target_sql == normalize_sql(cmp.target)
     IN cmp' = [cmp EXCEPT !.current_sql = current_sql, !.target_sql = target_sql,
                           !.state = IF current_sql # target_sql THEN "modified"
                                     ELSE "unchanged"]
  /\ UNCHANGED <<db, tx, txOpen, pristine, migrator, variant, env, entry, stdout, cascade,
                 sessions, pc, changes, loc, result, pre, log, hist>>

NextNormalize == CompareTexts

SpecNormalize == InitNormalize /\ [][NextNormalize]_vars

(***************************************************************************)
(* The session functions of db.rs, the request guard, login and logout.    *)
(***************************************************************************)
\* What no session operation changes.
migration == <<db, tx, txOpen, pristine, migrator, variant, pc, changes, loc, result, pre,
               log, hist, env, entry, stdout, cascade, cmp>>

Replied(op, token) == [NoRet EXCEPT !.op = op, !.token = token]
DatabaseError(op, token) ==
  [Replied(op, token) EXCEPT !.ok = FALSE, !.fault = TRUE, !.error = "Database",
                              !.text = "sqlx"]

\* Bookkeeping of a step that deletes the rows of the tokens in gone.
Kept(gone) ==
  [was EXCEPT !.deleted = [t \in gone \cap DOMAIN user_sessions |-> user_sessions[t]],
              !.op = ret.op, !.ok = ret.ok]

\* The rowid SQLite gives the next row: one more than the largest.
NextId ==
  IF DOMAIN user_sessions = {} THEN 1
  ELSE 1 + CHOOSE i \in {user_sessions[t].id : t \in DOMAIN user_sessions} :
             \A t \in DOMAIN user_sessions : user_sessions[t].id <= i

\* UserSession::from(DbUserSession)
UserSessionFrom(token, row) ==
  [token |-> token, user_id |-> row.user_id, expires_at |-> DecodeTime(row.expires_at)]

\* INSERT INTO user_sessions (user_id, token, expires_at); token is UNIQUE.
create_user_session(user_id, token, expires_at) ==
  /\ NextId <= MaxSessionId
  /\ \E fault \in BOOLEAN :
       IF fault \/ token \in DOMAIN user_sessions
       THEN /\ ret' = DatabaseError("create_user_session", token)
            /\ was' = Kept({})
            /\ UNCHANGED user_sessions
       ELSE /\ user_sessions' = Put(user_sessions, token,
                 [id |-> NextId, user_id |-> user_id, expires_at |-> EncodeTime(expires_at)])
            /\ ret' = [Replied("create_user_session", token) EXCEPT !.count = NextId]
            /\ was' = [Kept({}) EXCEPT !.created = @ \cup {token},
                                        !.invalidated = @ \ {token}]
  /\ UNCHANGED <<now, migration>>

\* SELECT .. FROM user_sessions WHERE token = ?
get_session_by_token(token) ==
  /\ \E fault \in BOOLEAN :
       ret' = IF fault THEN DatabaseError("get_session_by_token", token)
              ELSE IF token \in DOMAIN user_sessions
              THEN [Replied("get_session_by_token", token) EXCEPT
                      !.session = UserSessionFrom(token, user_sessions[token])]
              ELSE [Replied("get_session_by_token", token) EXCEPT
                      !.ok = FALSE, !.error = "Authentication",
                      !.text = "Invalid session token"]
  /\ was' = Kept({})
  /\ UNCHANGED <<user_sessions, now, migration>>

\* An invalidate_session that returns Ok and deletes nothing.
invalidate_nothing(token) ==
  /\ ret' = Replied("invalidate_session", token)
  /\ was' = [Kept({}) EXCEPT !.invalidated = @ \cup {token}]
  /\ UNCHANGED <<user_sessions, now, migration>>

\* DELETE FROM user_sessions WHERE token = ?
invalidate_session(token) ==
  /\ \E fault \in BOOLEAN :
       IF fault
       THEN /\ ret' = DatabaseError("invalidate_session", token)
            /\ was' = Kept({})
            /\ UNCHANGED user_sessions
       ELSE /\ user_sessions' = Del(user_sessions, {token})
            /\ ret' = Replied("invalidate_session", token)
            /\ was' = [Kept({token}) EXCEPT !.invalidated = @ \cup {token}]
  /\ UNCHANGED <<now, migration>>

\* A comparison that also takes the sessions that expire at this instant.
TextLessOrEqual(a, b) == a = b \/ TextLess(a, b)

\* expires_at < ?, as SQLite compares the stored text with the bound text
ExpiredAt(expires_at, t) == TextLess(expires_at, t)

\* DELETE FROM user_sessions WHERE expires_at < now; rows_affected
clean_expired_sessions ==
  /\ \E fault \in BOOLEAN :
       IF fault
       THEN /\ ret' = DatabaseError("clean_expired_sessions", None)
            /\ was' = Kept({})
            /\ UNCHANGED user_sessions
       ELSE LET expired == {t \in DOMAIN user_sessions :
                              ExpiredAt(user_sessions[t].expires_at, EncodeTime(now))}
            IN /\ user_sessions' = Del(user_sessions, expired)
               /\ ret' = [Replied("clean_expired_sessions", None) EXCEPT
                            !.count = Cardinality(expired)]
               /\ was' = Kept(expired)
  /\ UNCHANGED <<now, migration>>

\* Time passes; what the operations before returned is of an earlier instant.
Tick ==
  /\ \E t \in Instants : Earlier(now, t) /\ now' = t
  /\ ret' = NoRet
  /\ was' = [was EXCEPT !.deleted = EmptyMap, !.op = None, !.ok = TRUE]
  /\ UNCHANGED <<user_sessions, migration>>

NextSessions ==
  \/ \E token \in SessionTokens, expires_at \in Instants :
       create_user_session(1, token, expires_at) /\ UNCHANGED req
  \/ \E token \in SessionTokens : get_session_by_token(token) /\ UNCHANGED req
  \/ \E token \in SessionTokens : invalidate_session(token) /\ UNCHANGED req
  \/ clean_expired_sessions /\ UNCHANGED req
  \/ Tick /\ UNCHANGED req

\* The tests of the session functions: a database with no session.
InitSessions == Init /\ db = EmptyDb /\ migrator = New(EmptyDb, FALSE)

SpecSessions == InitSessions /\ [][NextSessions]_vars

(***************************************************************************)
(* auth/authentication.rs: login, logout and the request guard of User.    *)
(* The guard awaits the database twice, so a request is with it for three  *)
(* steps, and the other handlers, the hourly cleanup and the clock run     *)
(* between them.                                                           *)
(***************************************************************************)
\* The session_token cookie of a request: the cookie is private, so it is
\* absent or holds a token that login has put there.
Cookies == was.created \cup {None}

\* Utc::now() + chrono::Duration::hours(1)
HourFrom(t) == <<t[1] + Hour, t[2]>>

\* POST /login.  With the right password: a token that generate_token has
\* not given before (32 random alphanumerics) and a session of one hour;
\* a create_user_session that fails answers with its status.  Otherwise the
\* login page again, and no session.
process_login ==
  /\ now[1] + Hour <= MaxTime
  /\ \E authenticated \in BOOLEAN :
       IF authenticated
       THEN \E token \in SessionTokens \ was.created :
              create_user_session(1, token, HourFrom(now))
       ELSE /\ ret' = [Replied("process_login", None) EXCEPT !.ok = FALSE]
            /\ was' = Kept({})
            /\ UNCHANGED <<user_sessions, now, migration>>
  /\ UNCHANGED req

\* GET /logout: the session of the cookie is invalidated and the result of
\* that is dropped (let _ =); without the cookie nothing is deleted.
logout(cookie) ==
  /\ IF cookie # None
     THEN invalidate_session(cookie)
     ELSE /\ ret' = Replied("logout", None)
          /\ was' = Kept({})
          /\ UNCHANGED <<user_sessions, now, migration>>
  /\ UNCHANGED req

\* A comparison that lets the session through at the instant it expires.
NotYetPast(session, t) == ~Earlier(session.expires_at, t)

\* UserSession::is_valid at instant t: self.expires_at > now
is_valid(session, t) == Earlier(t, session.expires_at)

Yield(outcome) == [req EXCEPT !.pc = "done", !.outcome = outcome]

\* from_request, to its first await: the private cookie session_token and
\* the pool of the managed state.
FromRequest(cookie) ==
  /\ req.pc \in {None, "done"}
  /\ \E pool \in BOOLEAN :
       req' = IF cookie = None
              THEN [NoRequest EXCEPT !.pc = "done", !.arrived = now,
                                     !.outcome = "Error(Unauthorized)"]
              ELSE IF ~pool
              THEN [NoRequest EXCEPT !.pc = "done", !.token = cookie, !.arrived = now,
                                     !.after = cookie \in was.invalidated,
                                     !.outcome = "Error(InternalServerError)"]
              ELSE [NoRequest EXCEPT !.pc = "lookup", !.token = cookie, !.arrived = now,
                                     !.after = cookie \in was.invalidated]
  /\ UNCHANGED <<user_sessions, now, ret, was, migration>>

\* from_request: get_session_by_token(db, &token).await
Lookup ==
  /\ req.pc = "lookup"
  /\ get_session_by_token(req.token)
  /\ req' = IF ret'.ok THEN [req EXCEPT !.pc = "valid", !.session = ret'.session]
            ELSE Yield("Forward(Unauthorized)")

\* from_request: if !session.is_valid()
Valid ==
  /\ req.pc = "valid"
  /\ req' = IF is_valid(req.session, now)
            THEN [req EXCEPT !.pc = "user", !.checked = now]
            ELSE [Yield("Forward(Unauthorized)") EXCEPT !.checked = now]
  /\ UNCHANGED <<user_sessions, now, ret, was, migration>>

\* from_request: get_user(db, session.user_id).await
GetUser ==
  /\ req.pc = "user"
  /\ \E found \in BOOLEAN :
       req' = IF found THEN Yield("Success") ELSE Yield("Error(InternalServerError)")
  /\ UNCHANGED <<user_sessions, now, ret, was, migration>>

\* main.rs: the task that calls clean_expired_sessions every hour.
Cleaner == clean_expired_sessions /\ UNCHANGED req

NextAuth ==
  \/ process_login
  \/ \E cookie \in Cookies : logout(cookie)
  \/ \E cookie \in Cookies : FromRequest(cookie)
  \/ Lookup
  \/ Valid
  \/ GetUser
  \/ Cleaner
  \/ Tick /\ UNCHANGED req

SpecAuth == InitSessions /\ [][NextAuth]_vars

(***************************************************************************)
(* What the calls are checked against.                                     *)
(***************************************************************************)
Done == pc = "done"
Target == migrator.target_schema
NoFault == hist.faults = {}

RemovedTables(cur, tgt) == DOMAIN cur.tables \ DOMAIN tgt.tables
RemovedIndices(cur, tgt) == DOMAIN cur.indices \ DOMAIN tgt.indices
TablesLosingColumns(cur, tgt) ==
  {n \in DOMAIN cur.tables \cap DOMAIN tgt.tables : RemovedColumns(cur, tgt, n) # {}}

\* The diff from cur to tgt removes a table, an index or a column.
Destructive(cur, tgt) ==
  \/ RemovedTables(cur, tgt) # {}
  \/ RemovedIndices(cur, tgt) # {}
  \/ TablesLosingColumns(cur, tgt) # {}

\* A call with deletions forbidden, for a target the pristine build accepts whose
\* diff is destructive, in which no operation was made to fail.
ForbiddenCall ==
  /\ Done
  /\ ~migrator.allow_deletions
  /\ ValidSchema(Target)
  /\ Destructive(pre, Target)
  /\ NoFault

\* C1: Non-destructive default.  A migrate with allow_deletions = false whose
\* diff removes a table, an index or a column returns an error and leaves the
\* live database (tables, columns, indices, rows, user_version) as it was.
NonDestructiveDefault == ForbiddenCall => (~result.ok /\ db = pre)

\* C2: migrate is all-or-nothing.  Whenever migrate returns an error, whichever
\* operation failed, the live database is as it was before the call.
AllOrNothing == (Done /\ ~result.ok) => db = pre

\* C3: Atomicity of the executor.  When a statement of the apply phase fails,
\* the call returns an error, the transaction is closed and rolled back, and the
\* live database equals the one before the call, however many statements of
\* the attempt had succeeded.
Atomicity ==
  (Done /\ hist.failed_statement # None)
    => (~result.ok /\ ~txOpen /\ tx = db /\ db = pre)

\* A rename failed after the temporary table was created, filled and the old
\* table dropped.
AtomicityWitness ==
  /\ Done
  /\ hist.failed_statement = "Rename new table to"
  /\ Len(log) >= 3
  /\ db = pre

\* C4: Convergence.  After a migrate that returns Ok, the diff from the live
\* database to the target is empty: no new, removed or modified table or index,
\* and pragma_changes = false.
Convergence ==
  (Done /\ result.ok) => ~has_any_changes(Diff(variant, db, Target))

\* C5: Idempotence.  A migrate that follows a successful migrate with
\* allow_deletions = true to the same target returns changed = false, executes
\* no statement and no VACUUM, and leaves the database as it was.
Idempotence ==
  (Done /\ hist.prev_allow /\ NoFault)
    => (/\ result.ok
        /\ ~result.changed
        /\ log = <<>>
        /\ hist.vacuums = 0
        /\ db = pre)

\* The tables the running call rebuilt: those it renamed a temporary table to.
Rebuilt ==
  {log[k].name : k \in {j \in 1..Len(log) : log[j].what = "Rename new table to"}}

\* Every row of table T of new is a row of T of old, with its old value in the
\* columns of both and NULL in the columns only new has; when the two have a
\* column in common, new has every row of old.
RowsKept(old, new, T) ==
  /\ old.tables[T].cols \cap new.tables[T].cols # {}
       => Len(new.tables[T].rows) = Len(old.tables[T].rows)
  /\ \A k \in 1..Len(new.tables[T].rows) :
       /\ k <= Len(old.tables[T].rows)
       /\ \A c \in new.tables[T].cols :
            new.tables[T].rows[k][c] =
              IF c \in old.tables[T].cols THEN old.tables[T].rows[k][c] ELSE NULL

\* C6: Data preservation.  Every table rebuilt by a successful migrate holds
\* its rows with their values in the columns of both schemas (each source
\* column copied into the column of the same name) and NULL, the default of
\* a column declared without one, in the columns only the new schema has.
DataPreservation ==
  (Done /\ result.ok) =>
    \A T \in Rebuilt :
      T \in DOMAIN pre.tables /\ T \in DOMAIN db.tables /\ RowsKept(pre, db, T)

\* t1(a, b) with rows was rebuilt as t1(a, b, c).
DataPreservationWitness ==
  /\ Done /\ result.ok
  /\ "t1" \in Rebuilt
  /\ pre.tables["t1"].cols = {"a", "b"}
  /\ db.tables["t1"].cols = {"a", "b", "c"}
  /\ Len(db.tables["t1"].rows) = MaxRows
  /\ MaxRows > 0

\* The attempt ended in a policy refusal.
RefusedNow ==
  \/ pc = "rollback" /\ loc.err.op = "policy"
  \/ Done /\ ~result.ok /\ result.error.op = "policy"

\* C7: The policy gate runs before any mutation.  At a policy refusal, no
\* schema statement of the attempt has been executed on the live database.
GateBeforeMutation == RefusedNow => log = <<>>

ColumnRefusals == {"Refusing to remove columns", "Migration requires deleting columns"}
TableRefusals == {"Refusing to delete tables", "Migration requires deleting tables"}
IndexRefusals == {"Migration requires deleting indices"}

\* The removed objects a refusal message names.
Named(e) ==
  [tables |-> IF e.text \in TableRefusals THEN e.names ELSE {},
   indices |-> IF e.text \in IndexRefusals THEN e.names ELSE {},
   columns |-> IF e.text \in ColumnRefusals THEN {<<e.table, c>> : c \in e.names} ELSE {}]

\* C8: A policy refusal carries all reasons at once.  The error of a refused
\* migrate names every removed table, every removed index and, for each table
\* that loses columns, every removed column.
RefusalCarriesAllReasons ==
  (Done /\ ~result.ok /\ result.error.op = "policy") =>
    /\ RemovedTables(pre, Target) \subseteq Named(result.error).tables
    /\ RemovedIndices(pre, Target) \subseteq Named(result.error).indices
    /\ \A n \in TablesLosingColumns(pre, Target) :
         \A c \in RemovedColumns(pre, Target, n) : <<n, c>> \in Named(result.error).columns

\* The error names a removed column that its table still has.
ColumnDropRefused ==
  /\ ~result.ok
  /\ result.error.remedy
  /\ \E n \in TablesLosingColumns(pre, Target) :
       \E c \in RemovedColumns(pre, Target, n) :
         <<n, c>> \in Named(result.error).columns /\ c \in get_table_columns(db, n)

\* The error mentions the table deletion and the set of tables is unchanged.
TableDropRefused ==
  /\ ~result.ok
  /\ result.error.remedy
  /\ result.error.text \in TableRefusals
  /\ DOMAIN db.tables = DOMAIN pre.tables

\* C9: With allow_deletions = false, a target that drops a column is refused
\* with an error naming a removed column and the remedy, the column still
\* there; a target that drops a table is refused with an error that mentions
\* the table deletion and the remedy, the set of tables unchanged.
DropsRefusedByName ==
  (Done /\ ~migrator.allow_deletions /\ ValidSchema(Target) /\ NoFault) =>
    /\ TablesLosingColumns(pre, Target) # {} => ColumnDropRefused
    /\ RemovedTables(pre, Target) # {} => TableDropRefused

\* Nothing the target omits is left, and the rows of the tables that remain
\* keep their values in the columns that remain.
DeletionsDone ==
  /\ DOMAIN db.tables \subseteq DOMAIN Target.tables
  /\ DOMAIN db.indices \subseteq DOMAIN Target.indices
  /\ \A T \in DOMAIN db.tables : db.tables[T].cols \subseteq Target.tables[T].cols
  /\ \A T \in DOMAIN db.tables \cap DOMAIN pre.tables : RowsKept(pre, db, T)

\* C10: With allow_deletions = true the policy never refuses.  For a
\* destructive plan, a migrate in which no fault is injected returns Ok with
\* changed = true, and the deletions are done.
AllowedDeletionsSucceed ==
  (Done /\ migrator.allow_deletions /\ ValidSchema(Target) /\ Destructive(pre, Target)
        /\ NoFault)
    => (result.ok /\ result.changed /\ DeletionsDone)

\* C11: The changed result is per attempt.  Every migrate that returns Ok, a
\* second or later call on the same migrator included, returns changed = true
\* exactly when it executed at least one schema statement.
ChangedPerAttempt == (Done /\ result.ok) => (result.changed <=> log # <<>>)

\* The VACUUMs the running call has issued: the one that succeeded and the one
\* that failed.
VacuumsIssued == hist.vacuums + (IF "vacuum" \in hist.faults THEN 1 ELSE 0)

\* C12: VACUUM gating.  A call issues VACUUM at most once: exactly once when
\* its transaction committed and it executed at least one schema statement,
\* never otherwise; VACUUM is issued after the commit, with no transaction open.
VacuumGating ==
  /\ pc = "vacuum" => (~txOpen /\ hist.committed /\ log # <<>>)
  /\ Done => VacuumsIssued = (IF hist.committed /\ log # <<>> THEN 1 ELSE 0)

\* The calls that only plan, and the states in which such a call has returned.
PlanEntries == {"get_schema_changes", "get_destructive_changes"}
PlanReturned == entry \in PlanEntries /\ pc \in {"main", "done"}

\* C13: The plan is read-only and ungated.  get_schema_changes (get_changes)
\* executes no schema statement on the live database, never commits the
\* transaction it opens, leaves tables, indices, rows and user_version as they
\* were, and returns the plan, never a refusal, also for a destructive diff.
PlanReadOnly ==
  entry \in PlanEntries =>
    /\ log = <<>>
    /\ ~hist.committed
    /\ tx = db
    /\ db = pre
    /\ pc \in {"main", "done"} =>
         /\ ~txOpen
         /\ ~result.ok => result.error.op # "policy"
         /\ (NoFault /\ ValidSchema(Target)) => (result.ok /\ result = ResultPlan(result.plan))

\* get_schema_changes returned the plan of a diff that removes a table and a
\* column, the live database untouched.
PlanReadOnlyWitness ==
  /\ Done
  /\ entry = "get_schema_changes"
  /\ result.ok
  /\ result.plan.removed_tables # {}
  /\ TablesLosingColumns(pre, Target) # {}
  /\ db = pre

\* The three-way partition of the names of two catalogs by their stored texts.
TextOfTable(d, n) == TableTexts[n, Desc(d.tables[n])]
TextOfIndex(d, n) == IndexTexts[n, IDesc(d.indices[n])]

\* C14: Diff correctness.  For the plan of a current and a target schema:
\* new_tables = target \ current, removed_tables = current \ target,
\* modified_tables = the names on both sides whose normalized DDL differs, each
\* with new_columns = target \ current columns and removed_columns = current \
\* target columns; the same three sets for the indices; pragma_changes exactly
\* when the user_versions differ.
DiffCorrect ==
  (PlanReturned /\ result.ok) =>
    LET c == result.plan
        cur == pre
        tgt == Target
        both == DOMAIN cur.tables \cap DOMAIN tgt.tables
        bothIdx == DOMAIN cur.indices \cap DOMAIN tgt.indices
    IN /\ c.new_tables = DOMAIN tgt.tables \ DOMAIN cur.tables
       /\ c.removed_tables = DOMAIN cur.tables \ DOMAIN tgt.tables
       /\ c.modified_tables =
            {n \in both : normalize_sql(TextOfTable(cur, n)) # normalize_sql(TextOfTable(tgt, n))}
       /\ DOMAIN c.modified_info = c.modified_tables
       /\ \A n \in c.modified_tables :
            /\ c.modified_info[n].new_columns = tgt.tables[n].cols \ cur.tables[n].cols
            /\ c.modified_info[n].removed_columns = cur.tables[n].cols \ tgt.tables[n].cols
       /\ c.new_indices = DOMAIN tgt.indices \ DOMAIN cur.indices
       /\ c.removed_indices = DOMAIN cur.indices \ DOMAIN tgt.indices
       /\ c.modified_indices =
            {n \in bothIdx : normalize_sql(TextOfIndex(cur, n)) # normalize_sql(TextOfIndex(tgt, n))}
       /\ c.pragma_changes <=> cur.user_version # tgt.user_version

\* A plan with a table whose text differs only in layout (not modified) next
\* to one that gains a column (modified).
DiffCorrectWitness ==
  /\ PlanReturned /\ result.ok
  /\ result.plan.modified_tables = {"t1"}
  /\ result.plan.modified_info["t1"].new_columns = {"c"}
  /\ "t2" \in DOMAIN pre.tables \cap DOMAIN Target.tables
  /\ TextOfTable(pre, "t2") # TextOfTable(Target, "t2")

\* The structure of a ChangesNeeded.
PlanInvariant(c) ==
  /\ c.new_tables \cap c.removed_tables = {}
  /\ c.new_tables \cap c.modified_tables = {}
  /\ c.removed_tables \cap c.modified_tables = {}
  /\ c.new_indices \cap c.removed_indices = {}
  /\ c.new_indices \cap c.modified_indices = {}
  /\ c.removed_indices \cap c.modified_indices = {}
  /\ \A n \in DOMAIN c.modified_info :
       c.modified_info[n].new_columns \cap c.modified_info[n].removed_columns = {}

\* C15: ChangePlan invariant.  In every plan, of a planning call and of a
\* migrate, a table name is in at most one of new, removed and modified
\* tables, likewise an index name, and the new and removed columns of a
\* modified table are disjoint.
ChangePlanInvariant ==
  /\ PlanInvariant(changes)
  /\ (PlanReturned /\ result.ok) => PlanInvariant(result.plan)

\* A plan with a table that both loses and gains columns, next to a new or a
\* removed table.
ChangePlanInvariantWitness ==
  /\ PlanReturned /\ result.ok
  /\ \E n \in result.plan.modified_tables :
       /\ result.plan.modified_info[n].new_columns # {}
       /\ result.plan.modified_info[n].removed_columns # {}
  /\ result.plan.new_tables \cup result.plan.removed_tables # {}

\* C16: get_destructive_migrations reports destructive changes exactly when
\* the plan has a removed table, a removed index or a modified table with
\* removed columns; a plan that only adds passes; what is reported is the
\* removed tables, the removed indices and the removed columns.
ReportCorrect ==
  stdout # NoOutput =>
    LET c == result.plan
        removed_columns == UNION {{<<n, col>> : col \in c.modified_info[n].removed_columns} :
                                    n \in c.modified_tables}
    IN /\ stdout.verdict = Detected <=>
            (c.removed_tables # {} \/ c.removed_indices # {} \/ removed_columns # {})
       /\ stdout.verdict = Detected =>
            /\ stdout.tables = c.removed_tables
            /\ stdout.indices = c.removed_indices
            /\ stdout.columns = removed_columns

\* C20: Safe default.  migrate_database_declaratively of the lib runs with
\* allow_deletions = true only when ALLOW_DESTRUCTIVE_MIGRATIONS holds "true";
\* unset or with any other text, every destructive plan is refused; and
\* get_schema_changes always plans with allow_deletions = false.
SafeDefault ==
  /\ entry = "migrate_database_declaratively" => (migrator.allow_deletions <=> env = "true")
  /\ entry \in PlanEntries => ~migrator.allow_deletions
  /\ (Done /\ entry = "migrate_database_declaratively" /\ env # "true"
           /\ ValidSchema(Target) /\ Destructive(pre, Target) /\ NoFault
           /\ hist.failed_statement = None)
       => (~result.ok /\ result.error.op = "policy" /\ db = pre)

\* The call returned the error of the pristine build.
PristineFailure == Done /\ ~result.ok /\ result.error.op = "pristine"

\* C17: Bad target schema.  When the target DDL fails on the pristine
\* database, migrate returns that error from a state in which it has begun no
\* transaction on the live database and executed no statement against it, and
\* the live database is unchanged.
BadTargetSchema ==
  [][(~Done /\ PristineFailure') =>
       /\ pc = "connect"
       /\ ~txOpen /\ ~txOpen'
       /\ tx = db
       /\ log = <<>> /\ log' = <<>>
       /\ ~hist.committed
       /\ db = pre /\ db' = db]_vars

\* A target with an index on a table it does not define was refused by the
\* pristine build, the live database with its tables as before.
BadTargetSchemaWitness ==
  /\ PristineFailure
  /\ result.error.text = "Failed to create pristine schema"
  /\ DOMAIN pre.tables # {}
  /\ DOMAIN Target.indices # {}
  /\ db = pre

\* C18: Error kinds are distinguishable.  The kind of a policy refusal is the
\* kind of no other failure (of the pristine build, of a database operation),
\* so a caller tells a refusal from the other failures by the kind alone.
ErrorKindsDistinct ==
  (Done /\ ~result.ok) =>
    (result.error.kind = Refusal(variant, "", {}, None).kind <=> result.error.op = "policy")

\* C19: No error is swallowed.  When a statement of the apply phase fails, the
\* error migrate returns is that statement's error, also when the rollback
\* that follows fails.
NoErrorSwallowed ==
  (Done /\ hist.failed_statement # None) =>
    (~result.ok /\ result.error.op = hist.failed_statement)

\* The tables and indices of d are those of the target, with the target's DDL.
SchemaMigrated(d, tgt) ==
  /\ DOMAIN d.tables = DOMAIN tgt.tables
  /\ DOMAIN d.indices = DOMAIN tgt.indices
  /\ ModifiedTables(d, tgt) = {}
  /\ ModifiedIndices(d, tgt) = {}

\* C21: Cancellation.  A migrate abandoned before the commit of its
\* transaction leaves the live database as it was before the call, with no
\* new, rebuilt, temporary or dropped object; abandoned after the commit and
\* before VACUUM, it leaves the schema of the target: its tables and indices
\* with the target's DDL, and the target's user_version when that is not 0.
CancellationSafe ==
  pc = "cancelled" =>
    /\ ~txOpen
    /\ tx = db
    /\ IF hist.committed
       THEN /\ SchemaMigrated(db, Target)
            /\ Target.user_version # 0 => db.user_version = Target.user_version
       ELSE db = pre

\* The call was abandoned between the DROP of the old table and the RENAME of
\* a rebuild, nothing of it visible.
CancellationSafeWitness ==
  /\ pc = "cancelled"
  /\ ~hist.committed
  /\ Len(log) >= 3
  /\ log[Len(log)].what = "Drop old table"
  /\ db = pre

\* The call was abandoned after its commit, before VACUUM, the plan applied.
CancelledAfterCommit ==
  /\ pc = "cancelled"
  /\ hist.committed
  /\ db # pre

\* C22: No partial commit is visible.  What another connection reads, at any
\* point of one migrate or of two in a row, is the live database of before the
\* call or the migrated one: never a table <T>_migration_new, never a
\* modified table missing between its DROP and the RENAME, never a part of
\* the plan's statements.
NoPartialCommit ==
  /\ db = pre \/ (hist.committed /\ SchemaMigrated(db, Target))
  /\ \A n \in TableNames : TempName(n) \notin DOMAIN db.tables
  /\ txOpen => (db = pre /\ \A n \in changes.modified_tables : n \in DOMAIN db.tables)

\* A rebuild stands between its DROP and its RENAME: the transaction has the
\* temporary table and not the old one, other connections see the old one.
NoPartialCommitWitness ==
  /\ pc = "mt_rename"
  /\ txOpen
  /\ loc.table \notin DOMAIN tx.tables
  /\ TempName(loc.table) \in DOMAIN tx.tables
  /\ loc.table \in DOMAIN db.tables
  /\ db = pre

\* The step of apply_changes a statement belongs to.
RebuildSteps == {"Create temporary table for", "Copy data to new", "Drop old table",
                 "Rename new table to"}
IndexSteps == {"Drop obsolete index", "Drop changed index", "Recreate index",
               "Create new index"}
Phase(what) ==
  IF what = "Create new table" THEN 1
  ELSE IF what \in RebuildSteps THEN 2
  ELSE IF what = "Drop table" THEN 3
  ELSE IF what \in IndexSteps THEN 4
  ELSE 5

\* C23: Executor step order.  In every migrate the statements execute in the
\* order: CREATE TABLE of the new tables, the rebuilds of the modified tables,
\* DROP TABLE of the removed tables, DROP INDEX / CREATE INDEX of the index
\* reconciliation, PRAGMA user_version.
StepOrder ==
  /\ \A i, j \in 1..Len(log) : i < j => Phase(log[i].what) <= Phase(log[j].what)
  /\ \A i \in 1..Len(log) : Phase(log[i].what) = 5 <=> log[i].what = "Set user_version to"

\* A successful call that created a table, rebuilt another, created an index
\* and set user_version.
StepOrderWitness ==
  /\ Done /\ result.ok
  /\ {Phase(log[i].what) : i \in 1..Len(log)} = {1, 2, 4, 5}

\* A successful call that rebuilt a table and then dropped another.
StepOrderDrops ==
  /\ Done /\ result.ok
  /\ {2, 3} \subseteq {Phase(log[i].what) : i \in 1..Len(log)}

\* Statement k of the log is step what of the rebuild of table T.
IsStep(k, what, T) == k \in 1..Len(log) /\ log[k].what = what /\ log[k].name = T

\* The rebuild of T needs a copy: the table of before the call and the target
\* have a column in common.
CopyRequired(T) == get_table_columns(pre, T) \cap get_table_columns(Target, T) # {}

\* C24: Rebuild protocol.  For every modified table T the statements execute
\* in the order create <T>_migration_new, copy of the common columns (skipped
\* only when there is none), DROP TABLE T, RENAME; T is dropped only after the
\* temporary table was created and the copy, when required, succeeded; no
\* statement of another rebuild comes between the steps of T.
RebuildProtocol ==
  /\ \A k \in 1..Len(log) :
       LET T == log[k].name IN
       /\ log[k].what = "Copy data to new" =>
            (CopyRequired(T) /\ IsStep(k - 1, "Create temporary table for", T))
       /\ log[k].what = "Drop old table" =>
            IF CopyRequired(T)
            THEN IsStep(k - 1, "Copy data to new", T)
            ELSE IsStep(k - 1, "Create temporary table for", T)
       /\ log[k].what = "Rename new table to" => IsStep(k - 1, "Drop old table", T)
       /\ (log[k].what = "Create temporary table for" /\ k < Len(log)) =>
            IF CopyRequired(T)
            THEN IsStep(k + 1, "Copy data to new", T)
            ELSE IsStep(k + 1, "Drop old table", T)
       /\ (log[k].what = "Copy data to new" /\ k < Len(log)) =>
            IsStep(k + 1, "Drop old table", T)
       /\ (log[k].what = "Drop old table" /\ k < Len(log)) =>
            IsStep(k + 1, "Rename new table to", T)
  /\ (Done /\ result.ok /\ log # <<>>) =>
       log[Len(log)].what \notin {"Create temporary table for", "Copy data to new",
                                  "Drop old table"}

\* Two tables were rebuilt in one call, one with a copy and one without.
RebuildProtocolWitness ==
  /\ Done /\ result.ok
  /\ Rebuilt = {"t1", "t2"}
  /\ CopyRequired("t1")
  /\ ~CopyRequired("t2")

\* Table T is on both sides with the same normalized DDL: no table step
\* touches it.
Untouched(T) ==
  /\ T \in DOMAIN pre.tables \cap DOMAIN Target.tables
  /\ T \notin ModifiedTables(pre, Target)

\* C25: Indices of rebuilt tables survive.  After a successful migrate every
\* index the target defines on a rebuilt table exists with the target's DDL;
\* no DROP INDEX is issued for an index that is no longer there; an index on
\* an untouched table whose normalized DDL is unchanged is neither dropped
\* nor recreated.
IndicesSurvive ==
  /\ (Done /\ result.ok) =>
       \A i \in DOMAIN Target.indices :
         Target.indices[i].tbl \in Rebuilt =>
           /\ i \in DOMAIN db.indices
           /\ NormalizedIndexSql(db, i) = NormalizedIndexSql(Target, i)
  /\ hist.failed_statement \in {"Drop obsolete index", "Drop changed index"}
       => hist.failed_statement \in hist.faults
  /\ ValidSchema(Target) =>
       \A i \in DOMAIN pre.indices \cap DOMAIN Target.indices :
         (/\ Untouched(pre.indices[i].tbl)
          /\ NormalizedIndexSql(pre, i) = NormalizedIndexSql(Target, i))
           => \A k \in 1..Len(log) : ~(log[k].what \in IndexSteps /\ log[k].name = i)

\* Table t1 with its index was rebuilt; the index, dropped with the old
\* table, was created again.
IndicesSurviveWitness ==
  /\ Done /\ result.ok
  /\ "t1" \in Rebuilt
  /\ "i1" \in DOMAIN pre.indices
  /\ pre.indices["i1"].tbl = "t1"
  /\ "i1" \in DOMAIN db.indices
  /\ db.indices["i1"].tbl = "t1"
  /\ \E k \in 1..Len(log) : log[k].what = "Create new index" /\ log[k].name = "i1"

\* C26: Pragma update.  When the user_versions differ and the target's N is
\* not 0, a successful migrate executes PRAGMA user_version = N in the
\* transaction, counts it and leaves user_version = N.  When the target's is
\* 0 nothing is executed or counted for it and user_version keeps its value:
\* a plan whose only change is a reset to 0 returns changed = false and runs
\* no VACUUM.
PragmaUpdate ==
  (Done /\ result.ok /\ pre.user_version # Target.user_version) =>
    LET sets == {k \in 1..Len(log) : log[k].what = "Set user_version to"} IN
    IF Target.user_version # 0
    THEN /\ Cardinality(sets) = 1
         /\ \A k \in sets : log[k].name = Target.user_version
         /\ db.user_version = Target.user_version
         /\ result.changed
    ELSE /\ sets = {}
         /\ db.user_version = pre.user_version
         /\ (SchemaMigrated(pre, Target) => (~result.changed /\ VacuumsIssued = 0))

\* C27: Defense-in-depth re-check.  With allow_deletions = false the executor,
\* whatever plan it is handed, never executes DROP TABLE for a removed table
\* and never drops the old copy of a modified table that has a column the
\* target lacks; it stops before the drop with an error of kind Internal and
\* the transaction is rolled back.
DefenseInDepth ==
  ~migrator.allow_deletions =>
    /\ \A k \in 1..Len(log) :
         /\ log[k].what # "Drop table"
         /\ log[k].what = "Drop old table" => RemovedColumns(pre, Target, log[k].name) = {}
    /\ (Done /\ ValidSchema(Target) /\ NoFault /\ hist.failed_statement = None
             /\ (RemovedTables(pre, Target) # {} \/ TablesLosingColumns(pre, Target) # {}))
         => /\ ~result.ok
            /\ result.error.kind = "Internal"
            /\ result.error.op = "policy"
            /\ ~txOpen
            /\ db = pre

\* The executor, handed a plan that removes a table and rebuilds another,
\* rebuilt the one, refused at the drop of the other, and all was rolled back.
DefenseInDepthWitness ==
  /\ Done
  /\ ~migrator.allow_deletions
  /\ ~result.ok
  /\ result.error.text = "Migration requires deleting tables"
  /\ Len(log) >= 3
  /\ db = pre

\* The text migrate_table executes to create the temporary table of T defines
\* a table named <T>_migration_new with the columns, quoting and layout of
\* the target's text.
RewrittenAsTemp(T) ==
  LET sql == TableTexts[T, Desc(pristine.tables[T])]
      p == ParseCreate(TempSql(T, sql))
  IN /\ p.kind = "table"
     /\ p.name = TempName(T)
     /\ p.desc = Desc(pristine.tables[T])

\* C28: DDL rewrite for the temporary table.  For the CREATE TABLE text of
\* every modified table T as the pristine catalog stores it, whatever its
\* spacing or the quoting of its name, the rewritten statement creates a
\* table named T_migration_new and differs from the target's DDL in that name
\* only.
DdlRewrite == pc = "modify" => \A T \in loc.todo : RewrittenAsTemp(T)

\* The positions of apply_changes, and those at which the plan is held.
ApplyPositions == {"new_tables", "modify", "mt_copy", "mt_drop", "mt_rename", "remove",
                   "idx_drop", "idx_update", "idx_recreate", "pragma"}
PlanHeld == pc \in ApplyPositions \cup {"commit", "commit_empty"}

\* C29: Snapshot coherence.  Every read of the live catalog in migrate is
\* issued on the transaction that performs the writes, after it has begun and
\* defer_foreign_keys is set; with another writer interleaved, the plan that
\* is applied is the diff of the database the writes are applied to.
SnapshotCoherent ==
  /\ pc \in {"analyze"} \cup ApplyPositions => txOpen
  /\ PlanHeld =>
       /\ txOpen
       /\ changes = Diff(variant, db, pristine)
       /\ log = <<>> => tx = db

\* Another connection committed during the call, before its first read, and
\* the plan of the database it left is being applied.
SnapshotCoherentWitness ==
  /\ pc \in ApplyPositions
  /\ db # pre
  /\ log # <<>>
  /\ changes = Diff(variant, db, pristine)

\* The call has returned to its caller.
Returned == pc \in {"idle", "done", "main"}

PlanReturnedClosed ==
  /\ pc = "done"
  /\ entry = "get_schema_changes"
  /\ result.ok
  /\ has_any_changes(result.plan)
  /\ ~txOpen

\* The number of rows of table T in database d.
RowCount(d, T) == Len(d.tables[T].rows)

\* C31: No row loss without permission.  A successful rebuild of a table that
\* shares a column with its target keeps the number of its rows; with
\* allow_deletions = false a successful migrate reduces the number of rows of
\* no table that existed before the call; a rebuilt table loses rows only when
\* its old and new column sets are disjoint, under allow_deletions = true.
NoRowLoss ==
  (Done /\ result.ok) =>
    /\ \A T \in Rebuilt :
         /\ T \in DOMAIN pre.tables /\ T \in DOMAIN db.tables
         /\ pre.tables[T].cols \cap db.tables[T].cols # {}
              => RowCount(db, T) = RowCount(pre, T)
         /\ RowCount(db, T) < RowCount(pre, T)
              => /\ pre.tables[T].cols \cap db.tables[T].cols = {}
                 /\ migrator.allow_deletions
    /\ ~migrator.allow_deletions =>
         \A T \in DOMAIN pre.tables :
           /\ T \in DOMAIN db.tables
           /\ RowCount(db, T) >= RowCount(pre, T)

\* Without permission, a table with rows was rebuilt to gain a column and
\* kept its rows; another table with rows was left alone.
NoRowLossWitness ==
  /\ Done /\ result.ok
  /\ ~migrator.allow_deletions
  /\ "t1" \in Rebuilt
  /\ RowCount(pre, "t1") = MaxRows
  /\ RowCount(db, "t1") = MaxRows
  /\ MaxRows > 0

\* With permission, a rebuild between disjoint column sets lost the rows.
RowsLostWithPermission ==
  /\ Done /\ result.ok
  /\ migrator.allow_deletions
  /\ "t2" \in Rebuilt
  /\ RowCount(pre, "t2") > 0
  /\ RowCount(db, "t2") = 0

\* The tables on both sides whose normalized DDL is equal.
UnchangedTables ==
  {T \in DOMAIN pre.tables \cap DOMAIN Target.tables :
     NormTableTexts[T, Desc(pre.tables[T])] = NormTableTexts[T, Desc(Target.tables[T])]}

\* No statement of the running call has table T as its subject.
NoStatementOn(T) == \A k \in 1..Len(log) : Phase(log[k].what) \in 1..3 => log[k].name # T

\* C32: Frame of migrate.  A table on both sides with equal normalized DDL is
\* the subject of no CREATE, INSERT..SELECT, DROP or RENAME of migrate, and its
\* DDL text and its rows are unchanged by the call, whatever else the plan
\* contains.
Frame ==
  hist.calls > 0 =>
    \A T \in UnchangedTables :
      /\ NoStatementOn(T)
      /\ T \in DOMAIN tx.tables /\ tx.tables[T] = pre.tables[T]
      /\ T \in DOMAIN db.tables /\ db.tables[T] = pre.tables[T]

\* The statements-only part of the frame.
FrameOfStatements ==
  hist.calls > 0 => \A T \in UnchangedTables : NoStatementOn(T)

\* The pristine build accepted the target DDL of the call.
TargetAccepted == IsBlank(Target) \/ ValidSchema(Target)

\* C33: Progress.  For every current schema and every target DDL the pristine
\* build accepts, with allow_deletions = true and no injected fault, migrate
\* returns Ok, also when the current schema holds a table named
\* <T>_migration_new for a modified table T.
Progress ==
  (Done /\ migrator.allow_deletions /\ NoFault /\ TargetAccepted) => result.ok

\* C34: normalize_sql equates DDL that differs only in layout.  Two texts of
\* the same tokens, which differ in line comments (also one that ends at the
\* end of the input), in runs of whitespace, in whitespace next to ( ) and
\* commas, in double quotes around identifiers and in leading or trailing
\* whitespace, have the same normal form.
LayoutIgnored ==
  (cmp.state # None /\ cmp.state # "given" /\ cmp.tokens = cmp.target_tokens)
    => cmp.state = "unchanged"

\* C35: normalize_sql is conservative.  Two texts with the same normal form
\* have the same tokens, string literals included, so no changed table is
\* taken as unchanged.
Conservative ==
  cmp.state = "unchanged" => cmp.tokens = cmp.target_tokens

\* C36: Session invalidation.  After invalidate_session(t) has returned,
\* get_session_by_token(t) fails with the Authentication error "Invalid session
\* token" until a session with token t is created again; a token never created
\* gives the same error; sessions with other tokens remain retrievable.
SessionInvalidation ==
  /\ \A t \in was.invalidated \cup (SessionTokens \ was.created) :
       t \notin DOMAIN user_sessions
  /\ (ret.op = "get_session_by_token" /\ ret.token \notin DOMAIN user_sessions) =>
       /\ ~ret.ok
       /\ ~ret.fault => ret.error = "Authentication" /\ ret.text = "Invalid session token"
  /\ (ret.op = "get_session_by_token" /\ ret.token \in DOMAIN user_sessions
        /\ ~ret.fault) =>
       /\ ret.ok
       /\ ret.session.token = ret.token
       /\ ret.session.user_id = user_sessions[ret.token].user_id
  /\ (ret.op = "invalidate_session" /\ ret.ok) =>
       /\ ret.token \notin DOMAIN user_sessions
       /\ DOMAIN was.deleted \subseteq {ret.token}

\* A session was created, invalidated while another session existed, and
\* looked up: the lookup failed with the Authentication error.
SessionInvalidationWitness ==
  /\ ret.op = "get_session_by_token"
  /\ ret.token \in was.invalidated
  /\ ~ret.ok /\ ret.error = "Authentication"
  /\ was.op = "invalidate_session" /\ was.ok
  /\ DOMAIN user_sessions # {}

\* C37: Expired-session cleanup.  clean_expired_sessions deletes exactly the
\* sessions whose expires_at is earlier than the current time and returns
\* their number; every other session remains retrievable by its token; a
\* second cleanup at the same instant removes nothing and returns 0.
CleanupExact ==
  (ret.op = "clean_expired_sessions" /\ ret.ok) =>
    /\ \A t \in DOMAIN was.deleted : Earlier(DecodeTime(was.deleted[t].expires_at), now)
    /\ \A t \in DOMAIN user_sessions :
         ~Earlier(DecodeTime(user_sessions[t].expires_at), now)
    /\ DOMAIN was.deleted \cap DOMAIN user_sessions = {}
    /\ ret.count = Cardinality(DOMAIN was.deleted)
    /\ (was.op = "clean_expired_sessions" /\ was.ok) =>
         ret.count = 0 /\ was.deleted = EmptyMap

\* A cleanup deleted a session that expired within the running second and
\* kept one that expires at this very instant.
CleanupExactWitness ==
  /\ ret.op = "clean_expired_sessions" /\ ret.ok
  /\ ret.count = 1
  /\ \E t \in DOMAIN was.deleted :
       DecodeTime(was.deleted[t].expires_at)[1] = now[1]
  /\ \E t \in DOMAIN user_sessions : DecodeTime(user_sessions[t].expires_at) = now

\* A second cleanup at the same instant returned 0.
SecondCleanup ==
  /\ ret.op = "clean_expired_sessions" /\ ret.ok
  /\ was.op = "clean_expired_sessions" /\ was.ok
  /\ ret.count = 0
  /\ DOMAIN user_sessions # {}

Authenticated == req.pc = "done" /\ req.outcome = "Success"

RefusedExpired ==
  /\ req.pc = "done" /\ req.outcome = "Forward(Unauthorized)"
  /\ req.token \in DOMAIN user_sessions
  /\ ~Earlier(req.arrived, req.session.expires_at)

\* A request that comes after the logout of its token is refused.
RefusedAfterLogout ==
  /\ req.pc = "done" /\ req.outcome = "Forward(Unauthorized)"
  /\ req.after /\ req.token \in was.invalidated

\* A request that was with the guard, past its lookup, when logout deleted
\* its session: the guard decides on the session it read.
AuthenticatedAcrossLogout == Authenticated /\ req.token \in was.invalidated

====
